---- MODULE Spec2Model ----
(***************************************************************************)
(* Model of the outflow lead-enrichment worker: the protected template     *)
(* routes, the emailFinder tool, the EmailFinder and PeopleFinder agents   *)
(* over the legacy `companies` table, and the Orchestrator agent with its  *)
(* upserts into company_profiles / employees, the vectorize routes and     *)
(* VectorizeHandler, the two Finder agents, and of the frontend's compose  *)
(* modal and login page.                                                   *)
(*                                                                         *)
(* Each specification (SpecTemplates, ...) runs the handlers of one        *)
(* subsystem, or of the few that one property is about, and leaves the     *)
(* variables of the others at their initial value.                         *)
(***************************************************************************)
EXTENDS Integers, Sequences, FiniteSets, TLC

VARIABLES
    templates,      \* rows of the `templates` table
    nextId,         \* number of ids handed out by crypto.randomUUID()
    clock,          \* what `new Date()` currently reads
    tplResp,        \* the last request to a template route and its response
    deletedIds,     \* ids whose delete answered success (history)
    toolCall,       \* emailFinder tool: what the model and verifyEmail give this call
    toolOut,        \* emailFinder tool: the value execute() returned, <<>> before
    companies,      \* rows of the legacy `companies` table (one row per employee)
    efResp,         \* EmailFinder agent: the last request and its response
    pfResp,         \* PeopleFinder agent: the last request and its response
    company_profiles,   \* rows of the `company_profiles` table
    employees,      \* rows of the `employees` table
    orResp,         \* Orchestrator agent: the last request and its response
    company_vectors,    \* the COMPANY_VECTORS index: its vectors
    employee_vectors,   \* the EMPLOYEE_VECTORS index: its vectors
    vzResp,         \* vectorize routes and tool: the last request and its response
    finderResp,     \* Finder agents: the last request and its response
    card,           \* PersonCard: its props and its draft (subject, body)
    loginPage,      \* LoginPage: its renders so far (hook value, output, router push)
    racePc,         \* overlapping Orchestrator requests: where each one stands
    raceLocal       \* overlapping Orchestrator requests: each one's local variables

tplVars == <<templates, nextId, clock, tplResp, deletedIds>>
toolVars == <<toolCall, toolOut>>
agentVars == <<companies, efResp, pfResp>>
orchVars == <<company_profiles, employees, orResp>>

vecVars == <<company_vectors, employee_vectors, vzResp>>
finderVars == <<finderResp>>
uiVars == <<card, loginPage>>
raceVars == <<racePc, raceLocal>>
laterVars == <<vecVars, finderVars, uiVars, raceVars>>

vars == <<tplVars, toolVars, agentVars, orchVars, laterVars>>

\* ------------------------------------------------------------------------
\* Bounds and input sets
\* ------------------------------------------------------------------------
MaxTemplates == 2       \* templates ever created
MaxClock == 1           \* last instant `new Date()` can read
MaxCandidates == 4      \* emails the extraction model returns to the tool
MaxAgentEmails == 4     \* emails the model returns to the EmailFinder agent
MaxLlmPeople == 4       \* people the model returns to the PeopleFinder agent
MaxOrchPeople == 2      \* people the model returns to the Orchestrator

Users == {"u1", "u2"}
NoUser == "none"        \* getSession() gave no session, or one without user
Sessions == Users \cup {NoUser}

TplNames == {"n1"}
TplSubjects == {"s1"}
TplBodies == {"b1"}
Undefined == "undefined"    \* an optional body field that is absent

TemplateIds == 1..MaxTemplates   \* ids a request can name: unknown until created

\* ------------------------------------------------------------------------
\* Template routes (applyo-worker/src/tools/peopleFinder.ts:331-576)
\* ------------------------------------------------------------------------

\* Date.prototype.toISOString: a date becomes a string, no longer a date
toISOString(d) == <<"iso", d>>

HasUserAlways(s) == TRUE

\* `!session?.user` is false
HasUser(s) == s # NoUser

ListWhereAll(u) == templates

\* where: eq(templates.userId, session.user.id)
ListWhere(u) == {t \in templates : t.userId = u}

UpdateWhereAnyOwner(id, u) == {t \in templates : t.id = id}

\* where: and(eq(templates.id, id), eq(templates.userId, session.user.id))
UpdateWhere(id, u) == {t \in templates : t.id = id /\ t.userId = u}

DeleteWhereAnyOwner(id, u) == {t \in templates : t.id = id}

\* where: and(eq(templates.id, id), eq(templates.userId, session.user.id))
DeleteWhere(id, u) == {t \in templates : t.id = id /\ t.userId = u}

\* orderBy: [desc(templates.createdAt)] -- rows created in the same instant
\* come in any order
OrderedDesc(rows) ==
    {q \in [1..Cardinality(rows) -> rows] :
        /\ \A i, j \in DOMAIN q : i # j => q[i] # q[j]
        /\ \A i, j \in DOMAIN q : i < j => q[i].createdAt >= q[j].createdAt}

\* the 401 answer every route gives without a user; no statement is issued
Unauthorized(route, s, id) ==
    [route |-> route, session |-> s, id |-> id, status |-> 401,
     error |-> "Unauthorized", success |-> FALSE, templates |-> <<>>,
     template |-> <<>>, statements |-> 0]

\* .set({name, subject, body, updatedAt}): an undefined value leaves the column
SetColumn(old, new) == IF new = Undefined THEN old ELSE new

ProtectedTemplatesListRoute(s) ==
    /\ IF ~HasUser(s)
       THEN tplResp' = Unauthorized("list", s, 0)
       ELSE \E q \in OrderedDesc(ListWhere(s)) :
              tplResp' = [route |-> "list", session |-> s, id |-> 0,
                          status |-> 200, error |-> "", success |-> TRUE,
                          templates |-> [i \in DOMAIN q |->
                              [q[i] EXCEPT !.createdAt = toISOString(@),
                                           !.updatedAt = toISOString(@)]],
                          template |-> <<>>, statements |-> 1]
    /\ UNCHANGED <<templates, nextId, clock, deletedIds>>

ProtectedTemplatesCreateRoute(s, name, subject, body) ==
    IF ~HasUser(s)
    THEN /\ tplResp' = Unauthorized("create", s, 0)
         /\ UNCHANGED <<templates, nextId, clock, deletedIds>>
    ELSE /\ nextId < MaxTemplates
         /\ LET newTemplate == [id |-> nextId + 1, userId |-> s, name |-> name,
                                subject |-> subject, body |-> body,
                                createdAt |-> clock, updatedAt |-> clock]
            IN /\ templates' = templates \cup {newTemplate}
               /\ tplResp' = [route |-> "create", session |-> s,
                              id |-> newTemplate.id, status |-> 200,
                              error |-> "", success |-> TRUE, templates |-> <<>>,
                              template |-> <<[newTemplate EXCEPT
                                  !.createdAt = toISOString(@)]>>,
                              statements |-> 1]
         /\ nextId' = nextId + 1
         /\ UNCHANGED <<clock, deletedIds>>

ProtectedTemplatesUpdateRoute(s, id, name, subject, body) ==
    IF ~HasUser(s)
    THEN /\ tplResp' = Unauthorized("update", s, id)
         /\ UNCHANGED <<templates, nextId, clock, deletedIds>>
    ELSE LET matched == UpdateWhere(id, s)
             Set(t) == [t EXCEPT !.name = SetColumn(@, name),
                                 !.subject = SetColumn(@, subject),
                                 !.body = SetColumn(@, body),
                                 !.updatedAt = clock]
             result == {Set(t) : t \in matched}
         IN /\ templates' = (templates \ matched) \cup result
            /\ IF result = {}
               THEN tplResp' = [route |-> "update", session |-> s, id |-> id,
                                status |-> 404, error |-> "Template not found",
                                success |-> FALSE, templates |-> <<>>,
                                template |-> <<>>, statements |-> 1]
               ELSE \E updated \in result :
                      tplResp' = [route |-> "update", session |-> s, id |-> id,
                                  status |-> 200, error |-> "", success |-> TRUE,
                                  templates |-> <<>>,
                                  template |-> <<[updated EXCEPT
                                      !.createdAt = toISOString(@),
                                      !.updatedAt = toISOString(@)]>>,
                                  statements |-> 1]
            /\ UNCHANGED <<nextId, clock, deletedIds>>

ProtectedTemplatesDeleteRoute(s, id) ==
    IF ~HasUser(s)
    THEN /\ tplResp' = Unauthorized("delete", s, id)
         /\ UNCHANGED <<templates, nextId, clock, deletedIds>>
    ELSE LET result == DeleteWhere(id, s)
         IN /\ templates' = templates \ result
            /\ IF result = {}
               THEN /\ tplResp' = [route |-> "delete", session |-> s, id |-> id,
                                   status |-> 404, error |-> "Template not found",
                                   success |-> FALSE, templates |-> <<>>,
                                   template |-> <<>>, statements |-> 1]
                    /\ UNCHANGED deletedIds
               ELSE /\ tplResp' = [route |-> "delete", session |-> s, id |-> id,
                                   status |-> 200, error |-> "", success |-> TRUE,
                                   templates |-> <<>>, template |-> <<>>,
                                   statements |-> 1]
                    /\ deletedIds' = deletedIds \cup {id}
            /\ UNCHANGED <<nextId, clock>>

\* time passes between requests (only instants that can stamp a row matter)
Tick ==
    /\ clock < MaxClock
    /\ clock < nextId
    /\ clock' = clock + 1
    /\ UNCHANGED <<templates, nextId, tplResp, deletedIds>>

TemplatesIdle ==
    /\ templates = {}
    /\ nextId = 0
    /\ clock = 0
    /\ tplResp = [route |-> "none", session |-> NoUser, id |-> 0, status |-> 0,
                  error |-> "", success |-> FALSE, templates |-> <<>>,
                  template |-> <<>>, statements |-> 0]
    /\ deletedIds = {}

ListStep == \E s \in Sessions : ProtectedTemplatesListRoute(s)

CreateStep ==
    \E s \in Sessions, name \in TplNames, subject \in TplSubjects,
       body \in TplBodies :
        ProtectedTemplatesCreateRoute(s, name, subject, body)

UpdateStep ==
    \E s \in Sessions, id \in TemplateIds,
       name \in TplNames \cup {Undefined},
       subject \in TplSubjects \cup {Undefined},
       body \in TplBodies \cup {Undefined} :
        ProtectedTemplatesUpdateRoute(s, id, name, subject, body)

DeleteStep == \E s \in Sessions, id \in TemplateIds : ProtectedTemplatesDeleteRoute(s, id)

\* ------------------------------------------------------------------------
\* emailFinder tool (applyo-worker/src/tools/searchWeb.ts:63-167)
\* ------------------------------------------------------------------------
Emails == {"e1", "e2", "e3", "e4", "e5", "e6"}
ToolEmails == {"e1", "e2", "e3", "e4"}   \* the candidates the tool is tried on
VerifyOutcomes == {"valid", "invalid", "throws"}   \* verifyEmail: a status, or it throws
EmailLimit == 3

\* the sequences over S of length at most n
SeqsUpTo(S, n) == UNION {[1..k -> S] : k \in 0..n}

Min(a, b) == IF a < b THEN a ELSE b

SliceAll(q, n) == q

\* Array.prototype.slice(0, n)
Slice(q, n) == SubSeq(q, 1, Min(n, Len(q)))

UniqueKeepAll(q) == q

\* [...new Set(q)]: the first occurrence of each element, in order
RECURSIVE Unique(_)
Unique(q) ==
    IF q = <<>> THEN <<>>
    ELSE LET front == Unique(SubSeq(q, 1, Len(q) - 1))
             last == q[Len(q)]
         IN IF \E i \in DOMAIN front : front[i] = last
            THEN front ELSE Append(front, last)

\* the try/catch around verifyEmail: the email when the status is "valid",
\* null (dropped by the filter) when it is another status or the call threw
VerifiedOf(q, verify) == SelectSeq(q, LAMBDA e : verify[e] = "valid")

ToolIdle ==
    /\ toolCall = [keys |-> TRUE, extractionFails |-> FALSE, emails |-> <<>>,
                   verify |-> [e \in ToolEmails |-> "invalid"]]
    /\ toolOut = <<>>

\* a call: the API keys are set or not; generateObject throws or returns candidate emails; verifyEmail
\* answers each candidate
ToolCalled ==
    /\ toolCall \in [keys : BOOLEAN, extractionFails : BOOLEAN,
                     emails : SeqsUpTo(ToolEmails, MaxCandidates),
                     verify : [ToolEmails -> VerifyOutcomes]]
    /\ toolOut = <<>>

emailFinder ==
    /\ toolOut = <<>>
    /\ IF ~toolCall.keys
       THEN toolOut' = <<[threw |-> TRUE, emails |-> <<>>, valid |-> 0,
                          candidates |-> 0,
                          verification_summary |-> "Missing API keys for emailFinder tool"]>>
       ELSE IF toolCall.extractionFails
       THEN toolOut' = <<[threw |-> FALSE, emails |-> <<>>, valid |-> 0,
                          candidates |-> 0,
                          verification_summary |-> "Extraction failed"]>>
       ELSE LET uniqueEmails == Unique(toolCall.emails)
                verifiedEmails == VerifiedOf(uniqueEmails, toolCall.verify)
            IN toolOut' = <<[threw |-> FALSE,
                             emails |-> Slice(verifiedEmails, EmailLimit),
                             valid |-> Len(verifiedEmails),
                             candidates |-> Len(uniqueEmails),
                             verification_summary |-> "valid out of candidates"]>>
    /\ UNCHANGED toolCall

\* ------------------------------------------------------------------------
\* EmailFinder agent (unnamed/part_002) over the `companies` table
\* ------------------------------------------------------------------------
Null == "null"

\* String.prototype.trim on the strings the model uses
Trim(str) ==
    CASE str = " " -> ""
      [] str = "Unknown " -> "Unknown"
      [] str = "Acme " -> "Acme"
      [] OTHER -> str

\* SQL LOWER / String.prototype.toLowerCase on the strings the model uses
Lower(str) ==
    CASE str = "Ann Lee" -> "ann lee"
      [] str = "Unknown" -> "unknown"
      [] str = "Bob Ray" -> "bob ray"
      [] str = "Cy Orr" -> "cy orr"
      [] str = "Di Fox" -> "di fox"
      [] str = "Acme" -> "acme"
      [] str = "Beta" -> "beta"
      [] OTHER -> str

\* `${firstName} ${lastName}` on the (firstName, lastName) pairs the model uses
FullName(first, last) ==
    CASE first = "" /\ last = "" -> " "
      [] first = "Unknown" /\ last = "" -> "Unknown "
      [] first = "Ann" /\ last = "Lee" -> "Ann Lee"
      [] first = "ann" /\ last = "lee" -> "ann lee"
      [] first = "Bob" /\ last = "Ray" -> "Bob Ray"
      [] first = "Cy" /\ last = "Orr" -> "Cy Orr"
      [] first = "Di" /\ last = "Fox" -> "Di Fox"

\* JSON.stringify of an array of emails: a string, tagged as holding JSON
JSONstringify(list) == <<"json">> \o list

\* an email column written by older code: one plain address
PlainText(email) == <<"text", email>>

\* the try { JSON.parse(col); if (!Array.isArray) [col] } catch { [col] } of
\* both readers: the array, or the whole column as the single email
ParseEmails(col) == IF col[1] = "json" THEN Tail(col) ELSE <<col[2]>>

\* normalizeUrl(website) || "": the function is imported from ../lib/utils, so
\* its result is kept as the application to the website column
normalizeUrl(w) == <<"normalizeUrl", w>>

MissingNever(field) == FALSE

\* `const field = body.field || ""` and then `!field`: the required field of a
\* request body is absent or empty
Missing(field) == field = Undefined \/ field = ""

\* a || b on strings
OrElse(a, b) == IF a # "" THEN a ELSE b

LookupCaseSensitive(name) == {r \in companies : r.employee_name = name}

\* WHERE LOWER(employee_name) = LOWER(?)
LookupByEmployeeName(name) == {r \in companies : Lower(r.employee_name) = Lower(name)}

\* the next AUTOINCREMENT id
NextRowId(rows) == IF rows = {} THEN 1 ELSE 1 + CHOOSE m \in {r.id : r \in rows} :
                                                \A r \in rows : r.id <= m

NoAgentRequest ==
    /\ efResp = [path |-> "none", employee_name |-> "", emails |-> <<>>,
                 company_name |-> "", website |-> "", employee_title |-> "",
                 verified |-> 0, candidates |-> 0, validated |-> {},
                 lookups |-> 0, lookupThrew |-> FALSE, llmCalls |-> 0,
                 verifyCalls |-> 0, writes |-> 0, saveThrew |-> FALSE]
    /\ pfResp = [path |-> "none", status |-> 0, company |-> "", website |-> "",
                 people |-> <<>>, error |-> "", lookupThrew |-> FALSE,
                 calls |-> {}, asked |-> ""]

AgentsIdle == companies = {} /\ NoAgentRequest

\* the table is empty, or holds a row that older code wrote
AgentsInit ==
    /\ companies \in {{}, {[id |-> 1, company_name |-> "Acme", website |-> Null,
                            employee_name |-> "Ann Lee", employee_title |-> "",
                            email |-> PlainText("e1")]}}
    /\ NoAgentRequest

\* EmailFinder.checkEmailsInDB: the response built from one matching row, as a
\* set (empty for null: no row, or the query threw and the catch returned null)
checkEmailsInDB(employeeName, lookupThrows) ==
    IF lookupThrows THEN {}
    ELSE {[emails |-> Slice(ParseEmails(r.email), EmailLimit),
           company_name |-> r.company_name,
           website |-> normalizeUrl(r.website),
           employee_name |-> employeeName,
           employee_title |-> r.employee_title] : r \in LookupByEmployeeName(employeeName)}

\* EmailFinder.onRequest: the outcomes [resp, companies] (the response and
\* the table after it). llm: the model's text parsed or not, its emails and
\* title; verify: verifyEmail's answer per email; lookupThrows / saveThrows:
\* the database fails in checkEmailsInDB / in the save block
EmailFinderOutcomes(firstName, lastName, company_name, company, domain, role, llm, verify, lookupThrows, saveThrows) ==
    LET companyName == OrElse(company_name, company)
        employeeName == Trim(FullName(firstName, lastName))
        checked == employeeName # "" /\ employeeName # "Unknown"
        existingEmails == IF checked THEN checkEmailsInDB(employeeName, lookupThrows)
                          ELSE {}
        emailResult == IF llm.parsed THEN llm
                       ELSE [parsed |-> FALSE, emails |-> <<>>, employee_title |-> ""]
        verifiedEmails == VerifiedOf(emailResult.emails, verify)
        discoveredTitle == IF Trim(emailResult.employee_title) # ""
                           THEN Trim(emailResult.employee_title)
                           ELSE IF Trim(role) # "" THEN Trim(role) ELSE ""
        websiteValue == IF Trim(domain) # "" THEN domain ELSE Null
        companyNameValue == IF Trim(companyName) # "" THEN companyName ELSE "Unknown"
        employeeNameValue == IF Trim(employeeName) # "" THEN employeeName ELSE "Unknown"
        saving == verifiedEmails # <<>>
        limitedEmails == Slice(verifiedEmails, EmailLimit)
        ghost == [verified |-> Len(verifiedEmails),
                  candidates |-> Len(emailResult.emails),
                  validated |-> {e \in Emails : verify[e] = "valid"},
                  lookups |-> IF checked THEN 1 ELSE 0,
                  lookupThrew |-> checked /\ lookupThrows]
        fresh == [path |-> "fresh", employee_name |-> employeeName,
                  emails |-> limitedEmails, company_name |-> companyName,
                  website |-> domain, employee_title |-> discoveredTitle,
                  verified |-> ghost.verified,
                  candidates |-> ghost.candidates,
                  validated |-> ghost.validated,
                  lookups |-> ghost.lookups,
                  lookupThrew |-> ghost.lookupThrew, llmCalls |-> 1,
                  verifyCalls |-> Len(emailResult.emails),
                  writes |-> IF saving /\ ~saveThrows THEN 1 ELSE 0,
                  saveThrew |-> saving /\ saveThrows]
        matches == LookupByEmployeeName(employeeNameValue)
    IN IF existingEmails # {}
       THEN {[resp |-> [path |-> "db", employee_name |-> found.employee_name,
                        emails |-> found.emails,
                        company_name |-> found.company_name,
                        website |-> found.website,
                        employee_title |-> found.employee_title,
                        verified |-> Len(found.emails),
                        candidates |-> Len(found.emails), validated |-> {},
                        lookups |-> 1, lookupThrew |-> FALSE, llmCalls |-> 0,
                        verifyCalls |-> 0, writes |-> 0, saveThrew |-> FALSE],
              companies |-> companies] : found \in existingEmails}
       ELSE IF ~saving \/ saveThrows
       THEN {[resp |-> fresh, companies |-> companies]}
       ELSE IF matches # {}
       THEN {[resp |-> fresh,
              companies |-> (companies \ {existing}) \cup
                  {[id |-> existing.id,
                    company_name |-> companyNameValue,
                    website |-> websiteValue,
                    employee_name |-> employeeNameValue,
                    employee_title |-> discoveredTitle,
                    email |-> JSONstringify(
                        Unique(ParseEmails(existing.email) \o verifiedEmails))]}] :
             existing \in matches}
       ELSE {[resp |-> fresh,
              companies |-> companies \cup
                  {[id |-> NextRowId(companies),
                    company_name |-> companyNameValue,
                    website |-> websiteValue,
                    employee_name |-> employeeNameValue,
                    employee_title |-> discoveredTitle,
                    email |-> JSONstringify(verifiedEmails)]}]}

\* EmailFinder.onRequest as a step: one of its outcomes happens
EmailFinderOnRequest(firstName, lastName, company_name, company, domain, role, llm, verify, lookupThrows, saveThrows) ==
    \E o \in EmailFinderOutcomes(firstName, lastName, company_name, company, domain,
                                 role, llm, verify, lookupThrows, saveThrows) :
        /\ efResp' = o.resp
        /\ companies' = o.companies
        /\ UNCHANGED pfResp

\* the emails the model finds for a person, in the order it lists them
EmailNo == <<"e1", "e2", "e3", "e4", "e5", "e6">>

\* the model's answers: unparseable text (no emails, no title), or the first
\* n emails for n among `lengths` and the title "CEO"
LlmEmailAnswers(lengths) ==
    {[parsed |-> FALSE, emails |-> <<>>, employee_title |-> ""]} \cup
    {[parsed |-> TRUE, emails |-> SubSeq(EmailNo, 1, Min(n, Len(EmailNo))),
      employee_title |-> "CEO"] : n \in lengths}

\* verifyEmail's answers: the first email is valid, invalid or throws, every
\* other email is valid
VerifyAnswers ==
    {[e \in Emails |-> IF e = "e1" THEN v1 ELSE "valid"] : v1 \in VerifyOutcomes}

\* (checkEmailsInDB's query throws, the save block throws)
NoFault == <<FALSE, FALSE>>
LookupFault == <<TRUE, FALSE>>
SaveFault == <<FALSE, TRUE>>

EmailFinderStep(people, lengths, verifyAnswers, faults) ==
    \E p \in people, llm \in LlmEmailAnswers(lengths), verify \in verifyAnswers,
       fault \in faults :
        EmailFinderOnRequest(p[1], p[2], "", "Acme", "acme.com", "CTO",
                             llm, verify, fault[1], fault[2])

EfPeople == {<<"", "">>, <<"Unknown", "">>, <<"Ann", "Lee">>, <<"ann", "lee">>}

\* ------------------------------------------------------------------------
\* PeopleFinder agent (applyo-worker/src/agents/peoplefinder.ts:9-235)
\* ------------------------------------------------------------------------
PeopleMax == 3      \* PeopleSchema: people ... .max(3)

\* the people the model extracts, in the order it lists them
PersonNo == <<[name |-> "P1", role |-> "CEO"], [name |-> "P2", role |-> "CTO"],
              [name |-> "P3", role |-> "CFO"], [name |-> "P4", role |-> "COO"],
              [name |-> "P5", role |-> "VP"], [name |-> "P6", role |-> "VP"]>>

\* every order the rows of a result set can come in
RECURSIVE AnyOrder(_)
AnyOrder(rows) ==
    IF rows = {} THEN {<<>>}
    ELSE UNION {{<<r>> \o q : q \in AnyOrder(rows \ {r})} : r \in rows}

\* SELECT DISTINCT company_name, website, employee_name, employee_title
\* FROM companies WHERE LOWER(company_name) = LOWER(?)
SelectPeople(companyName) ==
    {[company_name |-> r.company_name, website |-> r.website,
      employee_name |-> r.employee_name, employee_title |-> r.employee_title] :
        r \in {c \in companies : Lower(c.company_name) = Lower(companyName)}}

\* PeopleFinder.checkPeopleInDB: the answers it can give, as a set (empty for
\* null: no row, or the query threw and the catch returned null)
checkPeopleInDB(companyName, lookupThrows) ==
    IF lookupThrows THEN {}
    ELSE {[company |-> results[1].company_name,
           website |-> normalizeUrl(results[1].website),
           people |-> [i \in DOMAIN results |->
                         [name |-> results[i].employee_name,
                          role |-> results[i].employee_title]]] :
            results \in {q \in AnyOrder(SelectPeople(companyName)) : q # <<>>}}

\* PeopleSchema.parse(JSON.parse(cleanText)) succeeds
PeopleSchemaAccepts(llm) == llm.parsed /\ Len(llm.people) <= PeopleMax

\* PeopleFinder.onRequest. search: what searchWeb gives ("throws", "empty",
\* "results"); llm: the model's text parsed or not and the people in it
PeopleFinderOnRequest(company, website, lookupThrows, search, llm) ==
    /\ IF Missing(company)
       THEN pfResp' = [path |-> "bad-request", status |-> 400, company |-> "",
                       website |-> "", people |-> <<>>,
                       error |-> "Company name is required", lookupThrew |-> FALSE,
                       calls |-> {},
                       asked |-> company]
       ELSE LET existingPeople == checkPeopleInDB(company, lookupThrows)
            IN IF existingPeople # {}
               THEN \E found \in existingPeople :
                      pfResp' = [path |-> "db", status |-> 200,
                                 company |-> found.company, website |-> found.website,
                                 people |-> found.people, error |-> "",
                                 lookupThrew |-> FALSE, calls |-> {"db"},
                                 asked |-> company]
               ELSE IF search = "throws" \/ (search = "results" /\ ~PeopleSchemaAccepts(llm))
               THEN pfResp' = [path |-> "error", status |-> 500, company |-> company,
                               website |-> website, people |-> <<>>,
                               error |-> "Failed to complete research",
                               lookupThrew |-> lookupThrows,
                               calls |-> IF search = "throws" THEN {"db", "web"}
                                         ELSE {"db", "web", "llm"},
                               asked |-> company]
               ELSE IF search = "empty"
               THEN pfResp' = [path |-> "no-results", status |-> 200,
                               company |-> company, website |-> website,
                               people |-> <<>>, error |-> "No search results found",
                               lookupThrew |-> lookupThrows, calls |-> {"db", "web"},
                               asked |-> company]
               ELSE pfResp' = [path |-> "extracted", status |-> 200,
                               company |-> llm.company,
                               website |-> OrElse(llm.website, website),
                               people |-> llm.people, error |-> "",
                               lookupThrew |-> lookupThrows,
                               calls |-> {"db", "web", "llm"}, asked |-> company]
    /\ UNCHANGED <<companies, efResp>>

\* the model's answers: unparseable text, or the first n people
LlmPeopleAnswers ==
    {[parsed |-> FALSE, company |-> "", website |-> "", people |-> <<>>]} \cup
    {[parsed |-> TRUE, company |-> "Acme", website |-> "",
      people |-> SubSeq(PersonNo, 1, Min(n, Len(PersonNo)))] : n \in 0..MaxLlmPeople}

\* what the web gives: searchWeb throws, finds nothing, or finds results that
\* the model then answers on
WebOutcomes ==
    {<<search, CHOOSE l \in LlmPeopleAnswers : ~l.parsed>> : search \in {"throws", "empty"}}
    \cup {<<"results", llm>> : llm \in LlmPeopleAnswers}

PeopleFinderStep ==
    \E company \in {"", "Acme", "acme"}, lookupThrows \in BOOLEAN, web \in WebOutcomes :
        PeopleFinderOnRequest(company, "https://acme.com", lookupThrows, web[1], web[2])

PfPeople == {<<"Bob", "Ray">>, <<"Cy", "Orr">>, <<"Di", "Fox">>}

AllValid == [e \in Emails |-> "valid"]

\* ------------------------------------------------------------------------
\* Orchestrator agent (applyo-worker/src/agents/peoplefinder.ts:249-409) and
\* upsertCompany / upsertEmployee (applyo-worker/src/tools/peopleFinder.ts:585-747)
\* ------------------------------------------------------------------------

\* a value is blank: null, or only white space
Blank(str) == str = Null \/ Trim(str) = ""

\* upsertCompany's WHERE: or(LOWER(company_name) = LOWER(name), website = site),
\* the second condition only for a non-blank website
CompanyMatches(rows, companyName, website) ==
    {c \in rows : \/ Lower(c.companyName) = Lower(Trim(companyName))
                  \/ ~Blank(website) /\ c.website = Trim(website)}

\* upsertCompany, past the name check: the outcomes [rows, id]. `.limit(1).get()`
\* takes any one matching row; only non-null fields overwrite an existing row.
\* description stands for the nine optional columns, all written the same way.
upsertCompany(rows, companyName, website, description) ==
    LET matches == CompanyMatches(rows, companyName, website)
    IN IF matches # {}
       THEN {[rows |-> (rows \ {existing}) \cup
                         {[existing EXCEPT
                             !.website = IF Blank(website) THEN @ ELSE Trim(website),
                             !.description = IF Blank(description) THEN @
                                             ELSE Trim(description)]},
              id |-> existing.id] : existing \in matches}
       ELSE {[rows |-> rows \cup
                         {[id |-> NextRowId(rows),
                           companyName |-> Trim(companyName),
                           website |-> IF Blank(website) THEN Null ELSE Trim(website),
                           description |-> IF Blank(description) THEN Null
                                           ELSE Trim(description)]},
              id |-> NextRowId(rows)]}

\* upsertEmployee, past the name check: the table after it
upsertEmployee(rows, companyId, employeeName, employeeTitle, email) ==
    LET matches == {e \in rows : /\ Lower(e.employeeName) = Lower(Trim(employeeName))
                                 /\ e.companyId = companyId}
    IN IF matches # {}
       THEN {(rows \ {existing}) \cup
               {[existing EXCEPT
                   !.employeeTitle = IF Blank(employeeTitle) THEN @
                                     ELSE Trim(employeeTitle),
                   !.email = IF Blank(email) THEN @ ELSE Trim(email)]} :
             existing \in matches}
       ELSE {rows \cup {[id |-> NextRowId(rows),
                         employeeName |-> Trim(employeeName),
                         employeeTitle |-> IF Blank(employeeTitle) THEN Null
                                           ELSE Trim(employeeTitle),
                         email |-> IF Blank(email) THEN Null ELSE Trim(email),
                         companyId |-> companyId]}}

HasEmailsField(person) == person.emailsKind = "array"

\* the filter: person.emails && Array.isArray(person.emails) && length > 0
HasEmails(person) == person.emailsKind = "array" /\ Len(person.emails) > 0

ShouldSaveWithRole(person) == person.name # "" /\ Len(person.emails) > 0 /\ person.role # ""

\* the loop's test: person.name && person.emails && person.emails.length > 0
ShouldSave(person) == person.name # "" /\ Len(person.emails) > 0

\* the for loop over finalResult.people from index i on: the outcomes
\* [rows, threw]. calls counts the database calls made so far; the call
\* numbered `fault` throws, and so does upsertEmployee on a blank name; a
\* throw leaves the loop with what was written before it.
RECURSIVE SavePeople(_, _, _, _, _, _)
SavePeople(rows, companyId, people, i, calls, fault) ==
    IF i > Len(people) THEN {[rows |-> rows, threw |-> FALSE]}
    ELSE IF ~ShouldSave(people[i])
    THEN SavePeople(rows, companyId, people, i + 1, calls, fault)
    ELSE IF calls + 1 = fault \/ Trim(people[i].name) = ""
    THEN {[rows |-> rows, threw |-> TRUE]}
    ELSE UNION {SavePeople(next, companyId, people, i + 1, calls + 1, fault) :
                  next \in upsertEmployee(rows, companyId, people[i].name,
                                          IF people[i].role = "" THEN Null
                                          ELSE people[i].role,
                                          people[i].emails[1])}

OrchIdle ==
    /\ company_profiles = {}
    /\ employees = {}
    /\ orResp = [kind |-> "none", status |-> 0, company |-> "", website |-> Null,
                 peopleKind |-> "absent", people |-> <<>>, favicon |-> FALSE,
                 answer |-> <<>>, saveThrew |-> FALSE, calls |-> {}, asked |-> ""]

OrchestratorResultOrError(query, llm, filtered, threw) ==
    [kind |-> IF threw THEN "parsing error" ELSE "result",
     status |-> IF threw THEN 500 ELSE 200,
     company |-> llm.company, website |-> llm.website,
     peopleKind |-> llm.peopleKind, people |-> filtered,
     favicon |-> llm.website # "",
     answer |-> <<llm>>, saveThrew |-> threw,
     calls |-> IF Blank(llm.company) THEN {"llm"} ELSE {"llm", "db"},
     asked |-> query]

\* the response that follows the save block: the model's JSON with the
\* filtered people and the favicon, whether the block threw (and its catch
\* logged the error) or not
OrchestratorResult(query, llm, filtered, threw) ==
    [kind |-> "result", status |-> 200,
     company |-> llm.company, website |-> llm.website,
     peopleKind |-> llm.peopleKind, people |-> filtered,
     favicon |-> llm.website # "",
     answer |-> <<llm>>, saveThrew |-> threw,
     calls |-> IF Blank(llm.company) THEN {"llm"} ELSE {"llm", "db"},
     asked |-> query]

\* Orchestrator.onRequest: the outcomes [resp, companies, rows] (the response
\* and the two tables after it). llm: the model's text parsed or not and the
\* JSON in it (the model's tool calls are part of the "llm" call); fault:
\* which database call of the save block throws (0: none).
\* peopleKind "string": people is a non-empty string, which passes the
\* `?.length` test unfiltered and whose characters the loop skips (no name).
OrchestratorOutcomes(query, llm, fault) ==
    LET reply(kind, status) ==
            [kind |-> kind, status |-> status, company |-> "", website |-> Null,
             peopleKind |-> "absent", people |-> <<>>, favicon |-> FALSE,
             answer |-> <<llm>>, saveThrew |-> FALSE, calls |-> {"llm"},
             asked |-> query]
        untouched(resp) ==
            {[resp |-> resp, companies |-> company_profiles, rows |-> employees]}
        filtered == IF llm.peopleKind = "array"
                    THEN SelectSeq(llm.people, HasEmails) ELSE <<>>
        companyName == llm.company
        website == IF llm.website = "" THEN Null ELSE llm.website
        result(threw) == OrchestratorResult(query, llm, filtered, threw)
    IN IF Missing(query)
       THEN untouched([reply("bad-request", 400) EXCEPT !.answer = <<>>, !.calls = {}])
       ELSE IF \/ ~llm.parsed
               \/ llm.peopleKind = "array" /\ \E i \in DOMAIN llm.people : llm.people[i].null
       THEN untouched(reply("parsing error", 500))
       ELSE IF llm.peopleKind = "absent" \/ (llm.peopleKind = "array" /\ Len(filtered) = 0)
       THEN untouched(reply("no emails found", 200))
       ELSE IF Blank(companyName)
       THEN untouched(result(FALSE))
       ELSE IF fault = 1
       THEN untouched(result(TRUE))
       ELSE UNION {{[resp |-> result(e.threw), companies |-> c.rows, rows |-> e.rows] :
                      e \in SavePeople(employees, c.id, filtered, 1, 1, fault)} :
                   c \in upsertCompany(company_profiles, companyName, website,
                                       llm.description)}

\* Orchestrator.onRequest as a step: one of its outcomes happens
OrchestratorOnRequest(query, llm, fault) ==
    \E o \in OrchestratorOutcomes(query, llm, fault) :
        /\ orResp' = o.resp
        /\ company_profiles' = o.companies
        /\ employees' = o.rows

\* the people entries the model is tried on
Person(name, role, emailsKind, emails) ==
    [null |-> FALSE, name |-> name, role |-> role, emailsKind |-> emailsKind,
     emails |-> emails]
Ann == Person("Ann Lee", "CEO", "array", <<"e1", "e2">>)
AnnLower == Person("ann lee", "", "array", <<"e2">>)
BobNoEmails == Person("Bob Ray", "CTO", "array", <<>>)
CyEmailsString == Person("Cy Orr", "CFO", "string", <<>>)
DiEmailsAbsent == Person("Di Fox", "COO", "absent", <<>>)
NoName == Person("", "VP", "array", <<"e3">>)
BlankName == Person(" ", "VP", "array", <<"e3">>)
NullEntry == [Person("", "", "absent", <<>>) EXCEPT !.null = TRUE]

Answer(company, website, description, peopleKind, people) ==
    [parsed |-> TRUE, company |-> company, website |-> website,
     description |-> description, peopleKind |-> peopleKind, people |-> people]

\* the model's answers: unparseable text; for one company, every people list
\* up to MaxOrchPeople over four kinds of entry, an absent and a non-array
\* people field; for the other spellings, companies and websites, one
\* well-formed person; and lists with the remaining kinds of entry
OrchAnswers ==
    {[Answer("", "", Null, "absent", <<>>) EXCEPT !.parsed = FALSE]}
    \cup {Answer("Acme", "", "d1", "array", people) :
            people \in SeqsUpTo({Ann, BobNoEmails, BlankName, NullEntry}, MaxOrchPeople)}
    \cup {Answer("Acme", "", "d1", kind, <<>>) : kind \in {"absent", "string"}}
    \cup {Answer(a[1], a[2], Null, "array", <<Ann>>) :
            a \in {<<"Acme", "acme.com">>, <<"acme", "">>, <<"Acme ", "">>,
                   <<"Beta", "acme.com">>, <<" ", "">>, <<"", "">>}}
    \cup {Answer("Acme", "", Null, "array", people) :
            people \in {<<Ann, AnnLower>>, <<NoName, Ann>>, <<CyEmailsString>>,
                        <<DiEmailsAbsent, AnnLower>>}}

\* the requests: an empty query; a query with each answer and no database
\* error; a query whose company upsert (1) or first employee upsert (2) throws
OrchRequests ==
    {<<"", [Answer("", "", Null, "absent", <<>>) EXCEPT !.parsed = FALSE], 0>>}
    \cup {<<"find people at acme", llm, 0>> : llm \in OrchAnswers}
    \cup {<<"find people at acme", Answer("Acme", "", "d1", "array", <<Ann>>), fault>> :
            fault \in 1..2}

OrchestratorStep ==
    \E req \in OrchRequests : OrchestratorOnRequest(req[1], req[2], req[3])

\* ------------------------------------------------------------------------
\* VectorizeHandler (applyo-worker/src/lib/vectorize.ts) and the vectorize
\* routes (applyo-worker/src/tools/peopleFinder.ts:105-321)
\* ------------------------------------------------------------------------
DefaultBatch == 50      \* the populate routes' default `limit`
SearchLimit == 5        \* search's default `limit`

\* value || '' on a nullable column
OrEmpty(v) == IF v = Null THEN "" ELSE v

\* Number.prototype.toString of an id
IdToString(n) == <<"str", n>>

\* the vector populateCompanies / updateCompany build for a company row
CompanyVector(c) ==
    [id |-> <<"company", c.id>>, company_id |-> IdToString(c.id),
     company_name |-> c.companyName, website |-> OrEmpty(c.website),
     description |-> OrEmpty(c.description)]

\* the vector populateEmployees builds for a row of the join
EmployeeVector(e, c) ==
    [id |-> <<"employee", e.id>>, employee_id |-> IdToString(e.id),
     employee_name |-> e.employeeName, employee_title |-> OrEmpty(e.employeeTitle),
     email |-> OrEmpty(e.email), company_id |-> IdToString(c.id),
     company_name |-> c.companyName]

\* the index's insert: a vector whose id the index already holds is left as it is
VectorInsert(index, vectors) ==
    index \cup {v \in vectors : \A w \in index : w.id # v.id}

\* the index's upsert: a vector whose id the index already holds is replaced
VectorUpsert(index, vectors) ==
    {w \in index : \A v \in vectors : v.id # w.id} \cup vectors

VzNone ==
    [route |-> "none", status |-> 0, success |-> FALSE, message |-> <<>>,
     error |-> "", offset |-> 0, limit |-> 0, attempted |-> {}, failed |-> {},
     stats |-> <<>>, search |-> <<>>]

VectorizeIdle ==
    /\ company_vectors = {}
    /\ employee_vectors = {}
    /\ vzResp = VzNone

\* the body shared by populateCompanies and populateEmployees, from the rows
\* selected on: [result, index]. vectorOf[id]: the vector built for a row;
\* embedFails: the ids whose AI.run throws; fault: the select or the insert throws
Populate(ids, vectorOf, index, embedFails, fault, noneMessage) ==
    LET vectors == {vectorOf[i] : i \in ids \ embedFails}
        failure(message, error, attempted) ==
            [result |-> [success |-> FALSE, message |-> message, error |-> error,
                         attempted |-> attempted, failed |-> attempted \cap embedFails],
             index |-> index]
    IN IF fault = "select" THEN failure(<<>>, "select failed", {})
       ELSE IF ids = {} THEN failure(<<noneMessage>>, "", {})
       ELSE IF vectors = {} THEN failure(<<"No vectors generated">>, "", ids)
       ELSE IF fault = "insert" THEN failure(<<>>, "insert failed", ids)
       ELSE [result |-> [success |-> TRUE,
                         message |-> <<"Populated", Cardinality(vectors)>>,
                         error |-> "", attempted |-> ids,
                         failed |-> ids \cap embedFails],
             index |-> VectorInsert(index, vectors)]

\* VectorizeHandler.populateCompanies(): it takes no parameter and selects
\* every row of company_profiles
populateCompanies(embedFails, fault) ==
    Populate({c.id : c \in company_profiles},
             [i \in {c.id : c \in company_profiles} |->
                 CompanyVector(CHOOSE c \in company_profiles : c.id = i)],
             company_vectors, embedFails, fault, "No companies found in database")

\* employees INNER JOIN company_profiles ON employees.company_id = company_profiles.id
EmployeeJoin ==
    {row \in [employee : employees, company : company_profiles] :
        row.employee.companyId = row.company.id}

\* VectorizeHandler.populateEmployees(): it takes no parameter and selects
\* every row of the join
populateEmployees(embedFails, fault) ==
    Populate({row.employee.id : row \in EmployeeJoin},
             [i \in {row.employee.id : row \in EmployeeJoin} |->
                 LET row == CHOOSE r \in EmployeeJoin : r.employee.id = i
                 IN EmployeeVector(row.employee, row.company)],
             employee_vectors, embedFails, fault, "No employees found in database")

\* the response of a populate route: the handler's result, 200 on success and
\* 500 otherwise; offset and limit are what the request asked for
PopulateResponse(route, offset, limit, result) ==
    [VzNone EXCEPT !.route = route, !.status = IF result.success THEN 200 ELSE 500,
                   !.success = result.success, !.message = result.message,
                   !.error = result.error, !.offset = offset, !.limit = limit,
                   !.attempted = result.attempted, !.failed = result.failed]

\* VectorizePopulateCompaniesRoute.handle
VectorizePopulateCompaniesRoute(offset, limit, embedFails, fault) ==
    LET done == populateCompanies(embedFails, fault)
    IN /\ vzResp' = PopulateResponse("populate-companies", offset, limit, done.result)
       /\ company_vectors' = done.index
       /\ UNCHANGED employee_vectors

\* VectorizePopulateEmployeesRoute.handle
VectorizePopulateEmployeesRoute(offset, limit, embedFails, fault) ==
    LET done == populateEmployees(embedFails, fault)
    IN /\ vzResp' = PopulateResponse("populate-employees", offset, limit, done.result)
       /\ employee_vectors' = done.index
       /\ UNCHANGED company_vectors

\* VectorizeUpdateCompanyRoute.handle with VectorizeHandler.updateCompany
VectorizeUpdateCompanyRoute(id, aiThrows) ==
    LET found == {c \in company_profiles : c.id = id}
        reply(success, message, error) ==
            [VzNone EXCEPT !.route = "update-company",
                           !.status = IF success THEN 200 ELSE 404,
                           !.success = success, !.message = message, !.error = error]
    IN IF found = {}
       THEN /\ vzResp' = reply(FALSE, <<>>, "Company not found")
            /\ UNCHANGED <<company_vectors, employee_vectors>>
       ELSE IF aiThrows
       THEN /\ vzResp' = reply(FALSE, <<>>, "embedding failed")
            /\ UNCHANGED <<company_vectors, employee_vectors>>
       ELSE \E company \in found :
              /\ vzResp' = reply(TRUE, <<"Updated vector for", company.companyName>>, "")
              /\ company_vectors' = VectorUpsert(company_vectors, {CompanyVector(company)})
              /\ UNCHANGED employee_vectors

\* VectorizeHandler.getStats: both numbers of a kind are the table's count(*)
getStats(dbThrows) ==
    IF dbThrows THEN [success |-> FALSE, error |-> "count failed", counts |-> <<>>]
    ELSE [success |-> TRUE, error |-> "",
          counts |-> <<[companies |-> [total_in_db |-> Cardinality(company_profiles),
                                       indexed |-> Cardinality(company_profiles)],
                        employees |-> [total_in_db |-> Cardinality(employees),
                                       indexed |-> Cardinality(employees)]]>>]

\* VectorizeStatsRoute.handle: Response.json(result), always 200
VectorizeStatsRoute(dbThrows) ==
    LET result == getStats(dbThrows)
    IN /\ vzResp' = [VzNone EXCEPT !.route = "stats", !.status = 200,
                                   !.success = result.success,
                                   !.error = result.error, !.stats = result.counts]
       /\ UNCHANGED <<company_vectors, employee_vectors>>

\* the populate requests: offset 0 or 1, limit 1 or the default; the first
\* MaxEmbedFailures rows' embeddings can fail; the select or the insert can throw
MaxEmbedFailures == 2
PopulateRequests ==
    {[offset |-> o, limit |-> l, embedFails |-> f, fault |-> "none"] :
        o \in {0, 1}, l \in {1, DefaultBatch}, f \in SUBSET (1..MaxEmbedFailures)}
    \cup {[offset |-> 0, limit |-> DefaultBatch, embedFails |-> {}, fault |-> x] :
            x \in {"select", "insert"}}

PopulateCompaniesStep ==
    \E r \in PopulateRequests :
        VectorizePopulateCompaniesRoute(r.offset, r.limit, r.embedFails, r.fault)

PopulateEmployeesStep ==
    \E r \in PopulateRequests :
        VectorizePopulateEmployeesRoute(r.offset, r.limit, r.embedFails, r.fault)

UpdateCompanyStep ==
    \E id \in 1..3, aiThrows \in BOOLEAN : VectorizeUpdateCompanyRoute(id, aiThrows)

StatsStep == \E dbThrows \in BOOLEAN : VectorizeStatsRoute(dbThrows)

\* the Orchestrator requests that fill the two tables here: two people at
\* Acme, one person at Beta
Bob == Person("Bob Ray", "CTO", "array", <<"e3">>)
TableFillAnswers ==
    {Answer("Acme", "", "d1", "array", <<Ann, Bob>>),
     Answer("Beta", "", Null, "array", <<Bob>>)}

TableFillStep ==
    \E llm \in TableFillAnswers : OrchestratorOnRequest("find people", llm, 0)

\* ------------------------------------------------------------------------
\* VectorizeHandler.search, the search route, the vectorizeSearch tool
\* (unnamed/part_004) and the two Finder agents (unnamed/part_001,
\* applyo-worker/src/agents/finder.ts)
\* ------------------------------------------------------------------------
Threshold == 7          \* 0.7, with scores counted in tenths

\* the scores the index gives (0.6, 0.7, 0.8)
Scores == {6, 7, 8}

\* what the index scores a query's vectors with: one score for the company
\* with id 1, one for the other companies, and the same for employees
ScoreKeys == {"company1", "companyN", "employee1", "employeeN"}
ScoreMaps == [ScoreKeys -> Scores]
ScoreOf(scores, v) ==
    scores[IF v.id[1] = "company"
           THEN (IF v.id[2] = 1 THEN "company1" ELSE "companyN")
           ELSE (IF v.id[2] = 1 THEN "employee1" ELSE "employeeN")]

\* the vectors of an index in every order of descending score
RECURSIVE Ranked(_, _)
Ranked(index, scores) ==
    IF index = {} THEN {<<>>}
    ELSE UNION {{<<v>> \o q : q \in Ranked(index \ {v}, scores)} :
                  v \in {w \in index : \A x \in index :
                                          ScoreOf(scores, x) <= ScoreOf(scores, w)}}

\* { score: match.score, ...match.metadata } of a company / an employee match
CompanyMatch(score, v) ==
    [score |-> score, company_id |-> v.company_id, company_name |-> v.company_name,
     website |-> v.website, description |-> v.description]
EmployeeMatch(score, v) ==
    [score |-> score, employee_id |-> v.employee_id, employee_name |-> v.employee_name,
     employee_title |-> v.employee_title, email |-> v.email,
     company_id |-> v.company_id, company_name |-> v.company_name]

\* index.query(embedding, { topK }) mapped to the result list: the topK best
\* matches, best first
VectorQuery(index, scores, topK, kind) ==
    {[i \in 1..Min(topK, Len(q)) |->
        IF kind = "companies" THEN CompanyMatch(ScoreOf(scores, q[i]), q[i])
        ELSE EmployeeMatch(ScoreOf(scores, q[i]), q[i])] :
        q \in Ranked(index, scores)}

WantedAlways(type, kind) == TRUE

\* type === kind || type === 'both'
Wanted(type, kind) == type = kind \/ type = "both"

\* VectorizeHandler.search(query, { type, limit }): its possible results.
\* type and limit are Undefined when the caller leaves them out; embeds and
\* queried record the AI.run calls made and the indexes queried
search(query, type, limit, scores, aiThrows) ==
    LET t == IF type = Undefined THEN "both" ELSE type
        topK == IF limit = <<>> THEN SearchLimit ELSE limit[1]
        failure(error, embeds) ==
            [success |-> FALSE, error |-> error, query |-> "", type |-> Undefined,
             hasCompanies |-> FALSE, companies |-> <<>>,
             hasEmployees |-> FALSE, employees |-> <<>>,
             embeds |-> embeds, queried |-> {}]
    IN IF query = "" THEN {failure("Query is required", 0)}
       ELSE IF aiThrows THEN {failure("embedding failed", 1)}
       ELSE {[success |-> TRUE, error |-> "", query |-> query, type |-> t,
              hasCompanies |-> Wanted(t, "companies"), companies |-> cs,
              hasEmployees |-> Wanted(t, "employees"), employees |-> es,
              embeds |-> 1,
              queried |-> {k \in {"companies", "employees"} : Wanted(t, k)}] :
             cs \in IF Wanted(t, "companies")
                    THEN VectorQuery(company_vectors, scores, topK, "companies")
                    ELSE {<<>>},
             es \in IF Wanted(t, "employees")
                    THEN VectorQuery(employee_vectors, scores, topK, "employees")
                    ELSE {<<>>}}

\* VectorizeSearchRoute.handle: type defaults to 'both', limit to 5;
\* 200 on success and 400 otherwise
VectorizeSearchRoute(q, type, limit, scores, aiThrows) ==
    \E result \in search(q, IF type = Undefined THEN "both" ELSE type,
                         IF limit = <<>> THEN <<SearchLimit>> ELSE limit,
                         scores, aiThrows) :
        /\ vzResp' = [VzNone EXCEPT !.route = "search",
                                    !.status = IF result.success THEN 200 ELSE 400,
                                    !.success = result.success,
                                    !.error = result.error,
                                    !.search = <<[asked |-> [query |-> q, type |-> type],
                                                  result |-> result]>>]
        /\ UNCHANGED <<company_vectors, employee_vectors>>

\* vectorizeSearch.execute: type || 'both', limit || 5; what it returns
\* always carries a companies and an employees list
vectorizeSearch(query, type, limit, scores, aiThrows) ==
    \E result \in search(query, IF type = Undefined THEN "both" ELSE type,
                         IF limit = <<>> \/ limit = <<0>> THEN <<SearchLimit>> ELSE limit,
                         scores, aiThrows) :
        /\ vzResp' = [VzNone EXCEPT
                        !.route = "tool", !.success = result.success,
                        !.error = result.error,
                        !.search = <<[asked |-> [query |-> query, type |-> type],
                                      result |-> [result EXCEPT !.type = Undefined,
                                                                !.hasCompanies = TRUE,
                                                                !.hasEmployees = TRUE]]>>]
        /\ UNCHANGED <<company_vectors, employee_vectors>>

\* the search requests: an empty or a non-empty query, every type or none,
\* the default limit or MaxTopK
MaxTopK == 1
SearchTypes == {"companies", "employees", "both", Undefined}
SearchRequests ==
    {[query |-> "", type |-> t, limit |-> <<>>, scores |-> [k \in ScoreKeys |-> 6],
      aiThrows |-> FALSE] : t \in SearchTypes}
    \cup {[query |-> "ai startups", type |-> t, limit |-> l, scores |-> sc,
           aiThrows |-> FALSE] :
            t \in SearchTypes, l \in {<<>>, <<MaxTopK>>},
            sc \in {m \in ScoreMaps : m["companyN"] = 6 /\ m["employeeN"] = 6}}
    \cup {[query |-> "ai startups", type |-> "both", limit |-> <<>>,
           scores |-> [k \in ScoreKeys |-> 6], aiThrows |-> TRUE]}

SearchRouteStep ==
    \E r \in SearchRequests :
        VectorizeSearchRoute(r.query, r.type, r.limit, r.scores, r.aiThrows)

SearchToolStep ==
    \E r \in SearchRequests :
        vectorizeSearch(r.query, r.type, r.limit, r.scores, r.aiThrows)

\* both indexes are populated, every embedding succeeding
PopulateAllStep ==
    \/ VectorizePopulateCompaniesRoute(0, DefaultBatch, {}, "none")
    \/ VectorizePopulateEmployeesRoute(0, DefaultBatch, {}, "none")

FinderNone ==
    [agent |-> "none", status |-> 0, shape |-> "none", company |-> "", people |-> <<>>,
     error |-> "", query |-> "", type |-> "", companies |-> <<>>, employees |-> <<>>,
     calls |-> {}, found |-> <<>>, asked |-> ""]

FinderIdle == finderResp = FinderNone

FinderLimit == 5        \* FinderV2's `limit: 5`

IsHighInclusive(score) == score >= Threshold

\* score > 0.7
IsHigh(score) == score > Threshold

\* companies.reduce((prev, curr) => curr.score > prev.score ? curr : prev,
\* companies[0]), from index i on
RECURSIVE Reduce(_, _, _)
Reduce(list, i, prev) ==
    IF i > Len(list) THEN prev
    ELSE Reduce(list, i + 1, IF list[i].score > prev.score THEN list[i] ELSE prev)

\* the people entry made of an employee match
FinderPerson(e) ==
    [name |-> e.employee_name, role |-> e.employee_title,
     emails |-> IF e.email # "" THEN <<e.email>> ELSE <<>>]

\* FinderV2.onRequest of the vector Finder agent (unnamed/part_001)
FinderV2OnRequest(query, type, scores, aiThrows) ==
    IF Missing(query)
    THEN finderResp' = [FinderNone EXCEPT !.agent = "vector", !.status = 400,
                                          !.shape = "bad-request",
                                          !.error = "Query is required",
                                          !.asked = query]
    ELSE \E result \in search(query, IF type = Undefined THEN "both" ELSE type,
                              <<FinderLimit>>, scores, aiThrows) :
           LET companyMatches == result.companies
               employeeMatches == result.employees
               hasHighScore ==
                   \/ \E i \in DOMAIN companyMatches : IsHigh(companyMatches[i].score)
                   \/ \E i \in DOMAIN employeeMatches : IsHigh(employeeMatches[i].score)
               companyName ==
                   IF companyMatches # <<>>
                      /\ Reduce(companyMatches, 1, companyMatches[1]).company_name # ""
                   THEN Reduce(companyMatches, 1, companyMatches[1]).company_name
                   ELSE IF employeeMatches # <<>> THEN employeeMatches[1].company_name
                   ELSE ""
               highScoreEmployees ==
                   SelectSeq(employeeMatches, LAMBDA e : IsHigh(e.score))
               base == [FinderNone EXCEPT !.agent = "vector", !.calls = {"vector"},
                                          !.found = <<result>>, !.asked = query]
           IN finderResp' =
                IF ~result.success
                THEN [base EXCEPT !.status = 500, !.shape = "failure",
                                  !.error = OrElse(result.error, "Search failed")]
                ELSE IF hasHighScore
                THEN [base EXCEPT !.status = 200, !.shape = "people",
                                  !.company = companyName,
                                  !.people = [i \in DOMAIN highScoreEmployees |->
                                                FinderPerson(highScoreEmployees[i])]]
                ELSE [base EXCEPT !.status = 200, !.shape = "raw",
                                  !.query = result.query, !.type = result.type,
                                  !.companies = companyMatches,
                                  !.employees = employeeMatches]

\* FinderV2.onRequest of the research Finder agent (agents/finder.ts). llm:
\* generateText throws, gives no text, or gives text; toolUsed: the model
\* called the vectorizeSearch tool on the way
ResearcherOnRequest(query, llm, toolUsed) ==
    IF Missing(query)
    THEN finderResp' = [FinderNone EXCEPT !.agent = "research", !.status = 400,
                                          !.shape = "bad-request",
                                          !.error = "Query is required",
                                          !.asked = query]
    ELSE finderResp' =
           [FinderNone EXCEPT
              !.agent = "research",
              !.status = IF llm = "text" THEN 200 ELSE 500,
              !.shape = IF llm = "text" THEN "markdown" ELSE "plain",
              !.error = IF llm = "throws" THEN "Error: Failed to complete research."
                        ELSE IF llm = "empty" THEN "no response" ELSE "",
              !.calls = IF toolUsed THEN {"llm", "vector"} ELSE {"llm"},
              !.asked = query]

\* the scorings the vector Finder is tried on: (company 1, other companies)
\* and (employee 1, other employees) below, at and above the threshold
FinderScoreMaps ==
    {m \in ScoreMaps :
        /\ <<m["company1"], m["companyN"]>> \in
              {<<6, 6>>, <<7, 6>>, <<8, 6>>, <<6, 8>>}
        /\ <<m["employee1"], m["employeeN"]>> \in
              {<<6, 6>>, <<7, 7>>, <<8, 6>>, <<6, 8>>, <<8, 8>>}
        /\ m["company1"] = 7 => m["employee1"] = 7}

\* the requests to the vector Finder: an empty or a non-empty query, every
\* type, none, or one the handler does not know, every scoring
FinderV2Step ==
    \/ \E type \in SearchTypes : FinderV2OnRequest("", type, [k \in ScoreKeys |-> 6], FALSE)
    \/ \E type \in SearchTypes \cup {"people"}, scores \in FinderScoreMaps :
          FinderV2OnRequest("ai startups", type, scores, FALSE)
    \/ FinderV2OnRequest("ai startups", "both", [k \in ScoreKeys |-> 6], TRUE)

ResearcherStep ==
    \E query \in {Undefined, "", "ai startups"}, llm \in {"throws", "empty", "text"},
       toolUsed \in BOOLEAN : ResearcherOnRequest(query, llm, toolUsed)

\* the requests whose save is tried with and without a database error: two
\* spellings of one employee and another employee, with up to two verified
\* emails; one or two
\* people at one company, the database call that throws being none (0), the
\* company upsert (1) or an employee upsert (2, 3)
MaxFault == 3
SaveEmailRequests ==
    {[person |-> p, llm |-> llm] :
        p \in {<<"Ann", "Lee">>, <<"ann", "lee">>, <<"Bob", "Ray">>},
        llm \in LlmEmailAnswers({0, 1, 2})}

SaveOrchAnswers ==
    {Answer("Acme", "acme.com", "d1", "array", people) :
        people \in {<<Ann>>, <<Ann, AnnLower>>, <<Bob, BlankName>>}}

EmailFinderSaveStep ==
    \E r \in SaveEmailRequests, saveThrows \in BOOLEAN :
        EmailFinderOnRequest(r.person[1], r.person[2], "", "Acme", "acme.com", "CTO",
                             r.llm, AllValid, FALSE, saveThrows)

OrchestratorSaveStep ==
    \E llm \in SaveOrchAnswers, fault \in 0..MaxFault :
        OrchestratorOnRequest("find people at acme", llm, fault)

\* the requests the four agents get side by side: the required field absent,
\* empty or given, and one answer of the services behind each agent
AgentFields == {Undefined, "", "acme"}

OrchestratorAnyField ==
    \E query \in AgentFields :
        OrchestratorOnRequest(query, Answer("Acme", "", "d1", "array", <<Ann>>), 0)

PeopleFinderAnyField ==
    \E company \in AgentFields,
       web \in {w \in WebOutcomes : w[1] # "throws" /\ Len(w[2].people) <= 1} :
        PeopleFinderOnRequest(company, "", FALSE, web[1], web[2])

FinderV2AnyField ==
    \E query \in AgentFields, s \in {6, 8} :
        FinderV2OnRequest(query, "both", [k \in ScoreKeys |-> s], FALSE)

\* ------------------------------------------------------------------------
\* PersonCard.handleTemplateSelect (unnamed/part_000:50-62). A string is the
\* sequence of its pieces: words, single spaces, placeholders, and the
\* patterns "$$" and "$&" that String.prototype.replace reads in a replacement
\* ------------------------------------------------------------------------
MaxBodyLen == 2         \* pieces of a template body

\* person.name.split(' ')[0]: the pieces before the first space
RECURSIVE FirstWord(_)
FirstWord(name) ==
    IF name = <<>> \/ Head(name) = " " THEN <<>>
    ELSE <<Head(name)>> \o FirstWord(Tail(name))

\* what replace() inserts for a replacement string: "$$" inserts "$", "$&"
\* inserts the matched text, every other piece inserts itself
Inserted(replacement, matched) ==
    [i \in DOMAIN replacement |->
        IF replacement[i] = "$$" THEN "$"
        ELSE IF replacement[i] = "$&" THEN matched
        ELSE replacement[i]]

\* body.replace(/placeholder/g, replacement)
RECURSIVE ReplaceAll(_, _, _)
ReplaceAll(body, placeholder, replacement) ==
    IF body = <<>> THEN <<>>
    ELSE (IF Head(body) = placeholder THEN Inserted(replacement, placeholder)
          ELSE <<Head(body)>>)
         \o ReplaceAll(Tail(body), placeholder, replacement)

\* PersonCard.handleTemplateSelect
handleTemplateSelect(template) ==
    LET firstName == FirstWord(card.person)
        company == IF card.companyName = <<>> \/ card.companyName[1] = <<>>
                   THEN <<"your company">> ELSE card.companyName[1]
        body == ReplaceAll(ReplaceAll(template.body, "{{firstName}}", firstName),
                           "{{company}}", company)
    IN card' = [card EXCEPT !.emailSubject = template.subject,
                            !.emailBody = body,
                            !.selected = <<template>>]

\* the props a card is rendered with; companyName is optional: <<>> when
\* the prop is left out, <<name>> when it is given
PersonNames == {<<"Ann", " ", "Lee">>, <<"Ann">>, <<" ", "Lee">>, <<>>}
CompanyNames == {<<>>} \cup {<<name>> : name \in {<<>>, <<"Acme">>, <<"Acme", " ", "Inc">>,
                                                  <<"Ca", "$$", "h">>, <<"R", "$&", "D">>}}

\* the templates a user has stored
BodyPieces == {"Hi", "{{firstName}}", "{{company}}"}
CardTemplates == [subject : {"s1", "s2"}, body : SeqsUpTo(BodyPieces, MaxBodyLen)]

CardIdle ==
    card = [person |-> <<>>, companyName |-> <<>>, emailSubject |-> "",
            emailBody |-> <<>>, selected |-> <<>>]

\* a card is mounted with its props and an empty draft
CardMounted ==
    card \in [person : PersonNames, companyName : CompanyNames, emailSubject : {""},
              emailBody : {<<>>}, selected : {<<>>}]

TemplateSelectStep == \E template \in CardTemplates : handleTemplateSelect(template)
\* ------------------------------------------------------------------------
\* LoginPage (frontend/src/app/login/page.tsx). loginPage is the sequence of
\* the renders so far: what useSession gave, what was rendered, and what the
\* effect pushed to the router
\* ------------------------------------------------------------------------
MaxRenders == 3         \* renders of the page

\* what authClient.useSession() can give: no session or a user's, pending or not
HookValues == [session : Sessions, isPending : BOOLEAN]

RenderedIgnoringSession(session, isPending) ==
    IF isPending THEN "loading" ELSE "login form"

\* the component's return value
Rendered(session, isPending) ==
    IF isPending THEN "loading"
    ELSE IF HasUser(session) THEN "null"
    ELSE "login form"

\* the effect: router.push('/') when session?.user && !isPending
Pushed(session, isPending) ==
    IF HasUser(session) /\ ~isPending THEN <<"/">> ELSE <<>>

LoginIdle == loginPage = <<>>

\* LoginPage is rendered: at mount, and whenever the hook gives a new value;
\* the effect runs after it, its dependencies having changed
LoginPage(hook) ==
    /\ Len(loginPage) < MaxRenders
    /\ loginPage # <<>> =>
          <<loginPage[Len(loginPage)].session, loginPage[Len(loginPage)].isPending>>
              # <<hook.session, hook.isPending>>
    /\ loginPage' = Append(loginPage,
                           [session |-> hook.session, isPending |-> hook.isPending,
                            rendered |-> Rendered(hook.session, hook.isPending),
                            pushed |-> Pushed(hook.session, hook.isPending)])

LoginPageStep == \E hook \in HookValues : LoginPage(hook)
\* ------------------------------------------------------------------------
\* Two Orchestrator requests in flight at once: each `await` of the save
\* block (agents/peoplefinder.ts:378-388, tools/peopleFinder.ts:614-688) is a
\* point where the other request can run. racePc is each request's position,
\* raceLocal its local variables
\* ------------------------------------------------------------------------
RaceRequests == {1, 2}

RaceIdle == racePc = <<>> /\ raceLocal = <<>>

\* the two requests have arrived and the model has not answered yet
RaceStarted ==
    /\ racePc = [r \in RaceRequests |-> "model"]
    /\ raceLocal = [r \in RaceRequests |->
                      [answer |-> <<>>, existing |-> <<>>, companyId |-> <<>>,
                       resp |-> <<>>]]

\* the model's answers to the requests: spellings of one company and another
\* company, with and without website and description, one person with emails
RaceAnswers ==
    {Answer(company, website, description, "array", <<Ann>>) :
        company \in {"Acme", "acme", "Beta"}, website \in {"", "acme.com"},
        description \in {Null, "d1"}}

\* generateText and the parsing of its answer
RaceModelAnswers(r, llm) ==
    /\ racePc[r] = "model"
    /\ racePc' = [racePc EXCEPT ![r] = "select"]
    /\ raceLocal' = [raceLocal EXCEPT ![r].answer = <<llm>>]
    /\ UNCHANGED <<company_profiles, employees, orResp>>

\* upsertCompany up to `const existing = await ... .limit(1).get()`: any one
\* matching row, or none
upsertCompanySelect(r) ==
    LET llm == raceLocal[r].answer[1]
        matches == CompanyMatches(company_profiles, llm.company,
                                  IF llm.website = "" THEN Null ELSE llm.website)
    IN /\ racePc[r] = "select"
       /\ racePc' = [racePc EXCEPT ![r] = "write"]
       /\ \E existing \in IF matches = {} THEN {<<>>} ELSE {<<c>> : c \in matches} :
             raceLocal' = [raceLocal EXCEPT ![r].existing = existing]
       /\ UNCHANGED <<company_profiles, employees, orResp>>

\* upsertCompany from `if (existing)` on: the update of the row with the
\* selected id, or the insert of a new row with the next id
upsertCompanyWrite(r) ==
    LET llm == raceLocal[r].answer[1]
        website == IF llm.website = "" THEN Null ELSE llm.website
        existing == raceLocal[r].existing
        id == IF existing # <<>> THEN existing[1].id ELSE NextRowId(company_profiles)
    IN /\ racePc[r] = "write"
       /\ racePc' = [racePc EXCEPT ![r] = "people"]
       /\ raceLocal' = [raceLocal EXCEPT ![r].companyId = <<id>>]
       /\ company_profiles' =
            IF existing # <<>>
            THEN {IF c.id = id
                  THEN [c EXCEPT
                          !.website = IF Blank(website) THEN @ ELSE Trim(website),
                          !.description = IF Blank(llm.description) THEN @
                                          ELSE Trim(llm.description)]
                  ELSE c : c \in company_profiles}
            ELSE company_profiles \cup
                   {[id |-> id,
                     companyName |-> Trim(llm.company),
                     website |-> IF Blank(website) THEN Null ELSE Trim(website),
                     description |-> IF Blank(llm.description) THEN Null
                                     ELSE Trim(llm.description)]}
       /\ UNCHANGED <<employees, orResp>>

\* the loop over the people and the response
RaceSavePeople(r) ==
    LET llm == raceLocal[r].answer[1]
        filtered == SelectSeq(llm.people, HasEmails)
    IN /\ racePc[r] = "people"
       /\ racePc' = [racePc EXCEPT ![r] = "done"]
       /\ \E e \in SavePeople(employees, raceLocal[r].companyId[1], filtered, 1, 1, 0) :
             /\ employees' = e.rows
             /\ raceLocal' = [raceLocal EXCEPT ![r].resp =
                                <<OrchestratorResult("find people", llm, filtered,
                                                     e.threw)>>]
             /\ orResp' = OrchestratorResult("find people", llm, filtered, e.threw)
       /\ UNCHANGED company_profiles

RaceStep ==
    \E r \in RaceRequests :
        \/ \E llm \in RaceAnswers : RaceModelAnswers(r, llm)
        \/ upsertCompanySelect(r)
        \/ upsertCompanyWrite(r)
        \/ RaceSavePeople(r)

LaterIdle == VectorizeIdle /\ FinderIdle /\ CardIdle /\ LoginIdle /\ RaceIdle

InitTemplates == TemplatesIdle /\ ToolIdle /\ AgentsIdle /\ OrchIdle /\ LaterIdle

NextTemplates ==
    \/ ListStep /\ UNCHANGED <<toolVars, agentVars, orchVars, laterVars>>
    \/ CreateStep /\ UNCHANGED <<toolVars, agentVars, orchVars, laterVars>>
    \/ UpdateStep /\ UNCHANGED <<toolVars, agentVars, orchVars, laterVars>>
    \/ DeleteStep /\ UNCHANGED <<toolVars, agentVars, orchVars, laterVars>>
    \/ Tick /\ UNCHANGED <<toolVars, agentVars, orchVars, laterVars>>

SpecTemplates == InitTemplates /\ [][NextTemplates]_vars

InitEmailTool == TemplatesIdle /\ ToolCalled /\ AgentsIdle /\ OrchIdle /\ LaterIdle

NextEmailTool ==
    \/ emailFinder /\ UNCHANGED <<tplVars, agentVars, orchVars, laterVars>>

SpecEmailTool == InitEmailTool /\ [][NextEmailTool]_vars

InitEmailFinder == TemplatesIdle /\ ToolIdle /\ AgentsInit /\ OrchIdle /\ LaterIdle

NextEmailFinder ==
    \/ /\ EmailFinderStep(EfPeople, {0, 1, MaxAgentEmails}, VerifyAnswers,
                          {NoFault, LookupFault, SaveFault})
       /\ UNCHANGED <<tplVars, toolVars, orchVars, laterVars>>

SpecEmailFinder == InitEmailFinder /\ [][NextEmailFinder]_vars

InitPeopleFinder == TemplatesIdle /\ ToolIdle /\ AgentsInit /\ OrchIdle /\ LaterIdle

NextPeopleFinder ==
    \/ /\ EmailFinderStep(PfPeople, {1}, {AllValid}, {NoFault})
       /\ UNCHANGED <<tplVars, toolVars, orchVars, laterVars>>
    \/ PeopleFinderStep /\ UNCHANGED <<tplVars, toolVars, orchVars, laterVars>>

SpecPeopleFinder == InitPeopleFinder /\ [][NextPeopleFinder]_vars

InitOrchestrator == TemplatesIdle /\ ToolIdle /\ AgentsIdle /\ OrchIdle /\ LaterIdle

NextOrchestrator ==
    \/ OrchestratorStep /\ UNCHANGED <<tplVars, toolVars, agentVars, laterVars>>

SpecOrchestrator == InitOrchestrator /\ [][NextOrchestrator]_vars

\* ------------------------------------------------------------------------
\* Properties of the template routes
\* ------------------------------------------------------------------------

\* a stored row as the list route serialises it
ListedRow(t) == [t EXCEPT !.createdAt = <<"iso", t.createdAt>>,
                          !.updatedAt = <<"iso", t.updatedAt>>]

\* the step is a request to a template route (the only other step is Tick)
TemplateRequestStep == clock' = clock

\* C1: a list response of an authenticated user u holds exactly the stored
\* templates whose userId is u, each once, and no template of another user.
C1_ListReturnsExactlyOwnTemplates ==
    (tplResp.route = "list" /\ tplResp.session \in Users) =>
        /\ tplResp.status = 200
        /\ {tplResp.templates[i] : i \in DOMAIN tplResp.templates}
             = {ListedRow(t) : t \in {r \in templates : r.userId = tplResp.session}}
        /\ Len(tplResp.templates)
             = Cardinality({r \in templates : r.userId = tplResp.session})
        /\ \A i \in DOMAIN tplResp.templates :
             tplResp.templates[i].userId = tplResp.session

\* u lists its own templates while another user has one stored too
C1_Witness ==
    /\ tplResp.route = "list"
    /\ tplResp.session = "u1"
    /\ Len(tplResp.templates) >= 1
    /\ \E t \in templates : t.userId = "u2"

\* C2: an update by u for id i answers 404 'Template not found' and changes no
\* row when no template (i, u) is stored; an update only ever adds or removes
\* versions of the row with id i and userId u.
C2_UpdateOnlyOwnTemplate ==
    [][(tplResp'.route = "update" /\ tplResp'.session \in Users) =>
        LET i == tplResp'.id
            u == tplResp'.session
        IN /\ (TemplateRequestStep /\ ~\E t \in templates : t.id = i /\ t.userId = u) =>
                /\ tplResp'.status = 404
                /\ tplResp'.error = "Template not found"
                /\ templates' = templates
           /\ \A t \in templates \ templates' : t.id = i /\ t.userId = u
           /\ \A t \in templates' \ templates : t.id = i /\ t.userId = u
           /\ {t.id : t \in templates'} = {t.id : t \in templates}]_vars

\* u2's update of a template that u1 owns was answered 404
C2_Witness ==
    /\ tplResp.route = "update"
    /\ tplResp.session = "u2"
    /\ tplResp.status = 404
    /\ \E t \in templates : t.id = tplResp.id /\ t.userId = "u1"

\* C3: a delete by u for id i removes exactly the template (i, u) and answers
\* success; with no such template it answers 404 and removes nothing; an id
\* whose delete succeeded is never stored or listed again.
C3_DeleteExactlyOwnTemplate ==
    /\ [][(tplResp'.route = "delete" /\ tplResp'.session \in Users
           /\ TemplateRequestStep) =>
            LET i == tplResp'.id
                u == tplResp'.session
                own == {t \in templates : t.id = i /\ t.userId = u}
            IN /\ templates' = templates \ own
               /\ own # {} => tplResp'.status = 200 /\ tplResp'.success
               /\ own = {} => /\ tplResp'.status = 404
                              /\ tplResp'.error = "Template not found"
                              /\ templates' = templates]_vars
    /\ [](\A i \in deletedIds :
            /\ \A t \in templates : t.id # i
            /\ tplResp.route = "list" =>
                 \A k \in DOMAIN tplResp.templates : tplResp.templates[k].id # i)

\* u1 deleted one of its templates and then listed what is left, and u2's
\* delete of a template of u1 was refused
C3_Witness ==
    /\ deletedIds # {}
    /\ tplResp.route = "list"
    /\ tplResp.session = "u1"
    /\ Len(tplResp.templates) >= 1

\* C4: a request without a user is answered 401 'Unauthorized', issues no
\* statement on the templates table and leaves the table as it was.
C4_NoSessionIsUnauthorized ==
    /\ []((tplResp.route # "none" /\ tplResp.session = NoUser) =>
            /\ tplResp.status = 401
            /\ tplResp.error = "Unauthorized"
            /\ tplResp.statements = 0
            /\ tplResp.templates = <<>>
            /\ tplResp.template = <<>>)
    /\ [][(tplResp'.session = NoUser /\ TemplateRequestStep) =>
            templates' = templates]_vars

\* a delete without a user was refused while templates are stored
C4_Witness ==
    /\ tplResp.route = "delete"
    /\ tplResp.session = NoUser
    /\ tplResp.status = 401
    /\ \E t \in templates : t.id = tplResp.id

\* ------------------------------------------------------------------------
\* Properties of the emailFinder tool
\* ------------------------------------------------------------------------

\* C7: every email the tool returns is an extracted candidate for which
\* verifyEmail returned "valid"; the list has no duplicates and at most 3 emails.
C7_ToolReturnsVerifiedEmails ==
    toolOut # <<>> =>
        LET out == toolOut[1].emails
        IN /\ \A i \in DOMAIN out :
                /\ \E k \in DOMAIN toolCall.emails : toolCall.emails[k] = out[i]
                /\ toolCall.verify[out[i]] = "valid"
                /\ ~toolCall.extractionFails
                /\ ~toolOut[1].threw
           /\ \A i, j \in DOMAIN out : i # j => out[i] # out[j]
           /\ Len(out) <= 3

\* two valid candidates, one of them extracted twice, next to a candidate
\* whose verification threw: the two are returned once each
C7_Witness ==
    /\ toolOut # <<>>
    /\ Len(toolOut[1].emails) = 2
    /\ \E i, j \in DOMAIN toolCall.emails :
          i # j /\ toolCall.emails[i] = toolCall.emails[j]
    /\ \E i \in DOMAIN toolCall.emails : toolCall.verify[toolCall.emails[i]] = "throws"

\* ------------------------------------------------------------------------
\* Properties of the EmailFinder and PeopleFinder agents
\* ------------------------------------------------------------------------

\* the rows of the table whose employee_name matches case-insensitively
MatchingRows(name) == {r \in companies : Lower(r.employee_name) = Lower(name)}

\* the response that was given is the one built from row r
BuiltFromRow(resp, r) ==
    /\ resp.company_name = r.company_name
    /\ resp.employee_title = r.employee_title
    /\ \/ r.email[1] = "json"
          /\ resp.emails = SubSeq(Tail(r.email), 1, Min(3, Len(r.email) - 1))
       \/ r.email[1] = "text" /\ resp.emails = <<r.email[2]>>

\* the request was answered from the table: no model call, no verification,
\* no write
AnsweredFromTable ==
    /\ efResp'.path = "db"
    /\ efResp'.llmCalls = 0
    /\ efResp'.verifyCalls = 0
    /\ efResp'.writes = 0
    /\ companies' = companies
    /\ \E r \in MatchingRows(efResp'.employee_name) : BuiltFromRow(efResp', r)

C9_AtMostThreeEmails ==
    efResp.path \in {"db", "fresh"} =>
        /\ Len(efResp.emails) <= 3
        /\ efResp.path = "fresh" =>
             \A i \in DOMAIN efResp.emails : efResp.emails[i] \in efResp.validated

\* a response from the table with 3 emails, built from a row that stores more
\* than 3 (a fresh search had verified and saved them all)
C9_Witness ==
    /\ efResp.path = "db"
    /\ Len(efResp.emails) = 3
    /\ \E r \in MatchingRows(efResp.employee_name) : Len(r.email) - 1 > 3

\* C10: every 200 response of the PeopleFinder agent carries at most 3 people.
C10_AtMostThreePeople ==
    pfResp.status = 200 => Len(pfResp.people) <= 3

\* ------------------------------------------------------------------------
\* Properties of the Orchestrator
\* ------------------------------------------------------------------------

\* the model's answer to the last request is well-formed JSON whose people
\* field is absent or a list of objects
WellFormedAnswer ==
    /\ orResp.answer # <<>>
    /\ orResp.answer[1].parsed
    /\ orResp.answer[1].peopleKind \in {"absent", "array"}
    /\ \A i \in DOMAIN orResp.answer[1].people : ~orResp.answer[1].people[i].null

\* C5: in every 200 response with a people list each person has a non-empty
\* emails array; when no person of the model's (well-formed) answer has an
\* email the response is the message 'no emails found' without people.
C5_OnlyPeopleWithEmails ==
    /\ (orResp.status = 200 /\ orResp.peopleKind = "array") =>
          \A i \in DOMAIN orResp.people :
              /\ orResp.people[i].emailsKind = "array"
              /\ Len(orResp.people[i].emails) >= 1
    /\ (/\ WellFormedAnswer
        /\ \A i \in DOMAIN orResp.answer[1].people :
              \/ orResp.answer[1].people[i].emailsKind # "array"
              \/ orResp.answer[1].people[i].emails = <<>>) =>
          /\ orResp.status = 200
          /\ orResp.kind = "no emails found"
          /\ orResp.people = <<>>
          /\ orResp.peopleKind = "absent"

\* a result whose people list lost an entry without emails to the filter
C5_Witness ==
    /\ orResp.kind = "result"
    /\ Len(orResp.people) >= 1
    /\ \E i \in DOMAIN orResp.answer[1].people :
          orResp.answer[1].people[i].emails = <<>>

\* the response is a 200 with a (non-blank) company and a non-empty people list
ResultWithCompanyAndPeople ==
    /\ orResp.status = 200
    /\ orResp.kind = "result"
    /\ orResp.company \notin {"", " "}
    /\ orResp.peopleKind = "array"
    /\ orResp.people # <<>>

\* the tables hold the company (a row matching it by name, case-insensitively,
\* or by website) and, under that row, every returned person that has a name
\* and an email
ResultIsStored ==
    \E c \in company_profiles :
        /\ \/ Lower(c.companyName) = Lower(Trim(orResp.company))
           \/ orResp.website # "" /\ c.website = orResp.website
        /\ \A i \in DOMAIN orResp.people :
              (orResp.people[i].name # "" /\ Len(orResp.people[i].emails) >= 1) =>
                  \E e \in employees :
                      /\ e.companyId = c.id
                      /\ Lower(e.employeeName) = Lower(Trim(orResp.people[i].name))

InitVectorize == TemplatesIdle /\ ToolIdle /\ AgentsIdle /\ OrchIdle /\ LaterIdle

NextVectorize ==
    \/ TableFillStep /\ UNCHANGED <<tplVars, toolVars, agentVars, laterVars>>
    \/ /\ PopulateCompaniesStep
       /\ UNCHANGED <<tplVars, toolVars, agentVars, orchVars, finderVars, uiVars, raceVars>>
    \/ /\ PopulateEmployeesStep
       /\ UNCHANGED <<tplVars, toolVars, agentVars, orchVars, finderVars, uiVars, raceVars>>
    \/ /\ UpdateCompanyStep
       /\ UNCHANGED <<tplVars, toolVars, agentVars, orchVars, finderVars, uiVars, raceVars>>
    \/ /\ StatsStep
       /\ UNCHANGED <<tplVars, toolVars, agentVars, orchVars, finderVars, uiVars, raceVars>>

SpecVectorize == InitVectorize /\ [][NextVectorize]_vars

\* ------------------------------------------------------------------------
\* Properties of the vectorize routes
\* ------------------------------------------------------------------------

\* the ids at positions o .. o+l-1 (from 0) of a table, in id order
BatchIds(ids, o, l) ==
    {i \in ids : Cardinality({j \in ids : j < i}) \in o..(o + l - 1)}

\* C11: a populate request with offset o and limit l embeds and inserts only
\* the records at positions o .. o+l-1 of its table, never more than l.
C11_PopulateOnlyTheBatch ==
    /\ vzResp.route = "populate-companies" =>
          /\ Cardinality(vzResp.attempted) <= vzResp.limit
          /\ vzResp.attempted \subseteq
                BatchIds({c.id : c \in company_profiles}, vzResp.offset, vzResp.limit)
    /\ vzResp.route = "populate-employees" =>
          /\ Cardinality(vzResp.attempted) <= vzResp.limit
          /\ vzResp.attempted \subseteq
                BatchIds({e.id : e \in employees}, vzResp.offset, vzResp.limit)

\* C12: the 'indexed' number the stats route reports for each kind is the
\* number of vectors of that kind the index holds.
C12_IndexedIsIndexCount ==
    (vzResp.route = "stats" /\ vzResp.success) =>
        /\ vzResp.stats[1].companies.indexed = Cardinality(company_vectors)
        /\ vzResp.stats[1].employees.indexed = Cardinality(employee_vectors)


InitSearch == TemplatesIdle /\ ToolIdle /\ AgentsIdle /\ OrchIdle /\ LaterIdle

NextSearch ==
    \/ TableFillStep /\ UNCHANGED <<tplVars, toolVars, agentVars, laterVars>>
    \/ /\ PopulateAllStep
       /\ UNCHANGED <<tplVars, toolVars, agentVars, orchVars, finderVars, uiVars, raceVars>>
    \/ /\ SearchRouteStep
       /\ UNCHANGED <<tplVars, toolVars, agentVars, orchVars, finderVars, uiVars, raceVars>>
    \/ /\ SearchToolStep
       /\ UNCHANGED <<tplVars, toolVars, agentVars, orchVars, finderVars, uiVars, raceVars>>

SpecSearch == InitSearch /\ [][NextSearch]_vars


\* ------------------------------------------------------------------------
\* Properties of vector search
\* ------------------------------------------------------------------------

\* an empty query is answered 'Query is required' with no embedding computed
\* and no index queried; otherwise exactly the indexes of the asked type are
\* queried (none when the embedding fails)
QueriesTheAskedIndexes(s) ==
    /\ s.asked.query = "" =>
          /\ ~s.result.success
          /\ s.result.error = "Query is required"
          /\ s.result.embeds = 0
          /\ s.result.queried = {}
    /\ (s.asked.query # "" /\ s.result.success) =>
          /\ s.asked.type = "companies" => s.result.queried = {"companies"}
          /\ s.asked.type = "employees" => s.result.queried = {"employees"}
          /\ s.asked.type \in {"both", Undefined} =>
                s.result.queried = {"companies", "employees"}
    /\ (s.asked.query # "" /\ ~s.result.success) => s.result.queried = {}

\* the result carries no list for the index that was not asked for
NoListOfTheOtherKind(s) ==
    s.result.success =>
        /\ s.asked.type = "companies" => ~s.result.hasEmployees
        /\ s.asked.type = "employees" => ~s.result.hasCompanies

\* C18 as stated, for the search route and the vectorizeSearch tool alike:
\* only the asked indexes are queried, the result has no list of the other
\* kind, and an empty query is refused before any embedding or query.
C18_SearchHonoursTypeEverywhere ==
    vzResp.route \in {"search", "tool"} =>
        /\ QueriesTheAskedIndexes(vzResp.search[1])
        /\ NoListOfTheOtherKind(vzResp.search[1])

\* C18, amended: the same for VectorizeHandler.search as the search route
\* returns it; the vectorizeSearch tool queries the same indexes, but its
\* result always carries both lists, the one not asked for being empty.
C18_SearchHonoursType ==
    /\ vzResp.route = "search" =>
          /\ QueriesTheAskedIndexes(vzResp.search[1])
          /\ NoListOfTheOtherKind(vzResp.search[1])
    /\ vzResp.route = "tool" =>
          /\ QueriesTheAskedIndexes(vzResp.search[1])
          /\ vzResp.search[1].result.hasCompanies
          /\ vzResp.search[1].result.hasEmployees
          /\ "companies" \notin vzResp.search[1].result.queried =>
                vzResp.search[1].result.companies = <<>>
          /\ "employees" \notin vzResp.search[1].result.queried =>
                vzResp.search[1].result.employees = <<>>

\* the search route was asked for companies while both indexes hold vectors:
\* company matches came back and no employees list
C18_Witness ==
    /\ vzResp.route = "search"
    /\ vzResp.search[1].asked.type = "companies"
    /\ vzResp.search[1].result.companies # <<>>
    /\ ~vzResp.search[1].result.hasEmployees
    /\ employee_vectors # {}


InitFinder == TemplatesIdle /\ ToolIdle /\ AgentsIdle /\ OrchIdle /\ LaterIdle

NextFinder ==
    \/ TableFillStep /\ UNCHANGED <<tplVars, toolVars, agentVars, laterVars>>
    \/ /\ PopulateAllStep
       /\ UNCHANGED <<tplVars, toolVars, agentVars, orchVars, finderVars, uiVars, raceVars>>
    \/ /\ FinderV2Step
       /\ UNCHANGED <<tplVars, toolVars, agentVars, orchVars, vecVars, uiVars, raceVars>>

SpecFinder == InitFinder /\ [][NextFinder]_vars

\* ------------------------------------------------------------------------
\* Properties of the vector Finder agent
\* ------------------------------------------------------------------------

\* the search of the last request succeeded and gave this result
Found == finderResp.found[1]

SearchSucceeded ==
    finderResp.agent = "vector" /\ finderResp.found # <<>> /\ Found.success

\* some company or employee match scored above the threshold
AnyHighScore ==
    \/ \E i \in DOMAIN Found.companies : Found.companies[i].score > 7
    \/ \E i \in DOMAIN Found.employees : Found.employees[i].score > 7

\* the indexes of the employee matches above the threshold, in result order
HighEmployees == SelectSeq([i \in DOMAIN Found.employees |-> i],
                           LAMBDA i : Found.employees[i].score > 7)

\* people is exactly the employee matches above the threshold, in result order
PeopleAreHighEmployees ==
    /\ Len(finderResp.people) = Len(HighEmployees)
    /\ \A k \in DOMAIN HighEmployees :
          /\ finderResp.people[k].name = Found.employees[HighEmployees[k]].employee_name
          /\ finderResp.people[k].role = Found.employees[HighEmployees[k]].employee_title
          /\ finderResp.people[k].emails \in
                {<<>>, <<Found.employees[HighEmployees[k]].email>>}

\* company is the name of a company match that no company match outscores
CompanyIsTopCompany ==
    \E i \in DOMAIN Found.companies :
        /\ finderResp.company = Found.companies[i].company_name
        /\ \A j \in DOMAIN Found.companies :
              Found.companies[j].score <= Found.companies[i].score

RawShape ==
    /\ finderResp.shape = "raw"
    /\ finderResp.query = Found.query
    /\ finderResp.type = Found.type
    /\ finderResp.companies = Found.companies
    /\ finderResp.employees = Found.employees

\* C13 as stated: with a match above 0.7 the response has the people shape,
\* people being the employee matches above 0.7 and company the name of the
\* highest-scoring company match; with none it has the raw shape.
C13_ThresholdAlwaysTopCompany ==
    SearchSucceeded =>
        IF AnyHighScore
        THEN /\ finderResp.shape = "people"
             /\ PeopleAreHighEmployees
             /\ CompanyIsTopCompany
        ELSE RawShape

\* C13, amended: the same when the search succeeded, company being the name
\* of the highest-scoring company match when there is a company match and
\* the company_name of the first employee match otherwise.
C13_Threshold ==
    SearchSucceeded =>
        IF AnyHighScore
        THEN /\ finderResp.shape = "people"
             /\ PeopleAreHighEmployees
             /\ IF Found.companies # <<>> THEN CompanyIsTopCompany
                ELSE finderResp.company = Found.employees[1].company_name
        ELSE RawShape

\* two employee matches came back, one above 0.7 and one at or below it; only
\* the first is among the people, and two company matches gave the company
C13_Witness ==
    /\ SearchSucceeded
    /\ finderResp.shape = "people"
    /\ Len(Found.employees) >= 2
    /\ Len(finderResp.people) = 1
    /\ Len(Found.companies) = 2
    /\ Found.companies[1].score > Found.companies[2].score


InitCompose ==
    /\ TemplatesIdle /\ ToolIdle /\ AgentsIdle /\ OrchIdle
    /\ VectorizeIdle /\ FinderIdle /\ CardMounted /\ LoginIdle /\ RaceIdle

NextCompose ==
    \/ /\ TemplateSelectStep
       /\ UNCHANGED <<tplVars, toolVars, agentVars, orchVars, vecVars, finderVars,
                      loginPage, raceVars>>

SpecCompose == InitCompose /\ [][NextCompose]_vars

\* ------------------------------------------------------------------------
\* Properties of the compose modal
\* ------------------------------------------------------------------------

\* the template body with every placeholder replaced by the given texts
RECURSIVE Filled(_, _, _)
Filled(body, firstName, company) ==
    IF body = <<>> THEN <<>>
    ELSE (CASE Head(body) = "{{firstName}}" -> firstName
            [] Head(body) = "{{company}}" -> company
            [] OTHER -> <<Head(body)>>)
         \o Filled(Tail(body), firstName, company)

\* C14: after a template is selected the subject is the template's subject
\* and the body is the template's body with every {{firstName}} replaced by
\* the first word of the person's name and every {{company}} by the company
\* name, or by 'your company' when none is given.
C14_PlaceholdersSubstituted ==
    card.selected # <<>> =>
        /\ card.emailSubject = card.selected[1].subject
        /\ card.emailBody =
              Filled(card.selected[1].body, FirstWord(card.person),
                     IF card.companyName = <<>> \/ card.companyName[1] = <<>>
                     THEN <<"your company">> ELSE card.companyName[1])


InitLogin == TemplatesIdle /\ ToolIdle /\ AgentsIdle /\ OrchIdle /\ LaterIdle

NextLogin ==
    \/ /\ LoginPageStep
       /\ UNCHANGED <<tplVars, toolVars, agentVars, orchVars, vecVars, finderVars,
                      card, raceVars>>

SpecLogin == InitLogin /\ [][NextLogin]_vars

\* ------------------------------------------------------------------------
\* Properties of the login page
\* ------------------------------------------------------------------------

\* C16: in every render, a pending session check shows the loading state; a
\* session with a user and no pending check renders nothing and redirects to
\* '/'; the login form is rendered only when the check has finished and the
\* session has no user.
C16_NoLoginFormForUser ==
    \A i \in DOMAIN loginPage :
        /\ loginPage[i].isPending => loginPage[i].rendered = "loading"
        /\ (loginPage[i].session # NoUser /\ ~loginPage[i].isPending) =>
              /\ loginPage[i].rendered = "null"
              /\ loginPage[i].pushed = <<"/">>
        /\ loginPage[i].rendered = "login form" =>
              /\ ~loginPage[i].isPending
              /\ loginPage[i].session = NoUser
        /\ loginPage[i].pushed # <<>> => loginPage[i].session # NoUser

\* the check was pending, finished without a user (the form was shown), and
\* then the session got a user: nothing is rendered and the router is pushed
C16_Witness ==
    /\ Len(loginPage) = 3
    /\ loginPage[1].rendered = "loading"
    /\ loginPage[2].rendered = "login form"
    /\ loginPage[3].session # NoUser
    /\ loginPage[3].rendered = "null"
    /\ loginPage[3].pushed = <<"/">>


InitAgents == TemplatesIdle /\ ToolIdle /\ AgentsIdle /\ OrchIdle /\ LaterIdle

NextAgents ==
    \/ OrchestratorAnyField /\ UNCHANGED <<tplVars, toolVars, agentVars, laterVars>>
    \/ PeopleFinderAnyField /\ UNCHANGED <<tplVars, toolVars, orchVars, laterVars>>
    \/ /\ PopulateAllStep
       /\ UNCHANGED <<tplVars, toolVars, agentVars, orchVars, finderVars, uiVars, raceVars>>
    \/ /\ FinderV2AnyField
       /\ UNCHANGED <<tplVars, toolVars, agentVars, orchVars, vecVars, uiVars, raceVars>>
    \/ /\ ResearcherStep
       /\ UNCHANGED <<tplVars, toolVars, agentVars, orchVars, vecVars, uiVars, raceVars>>

SpecAgents == InitAgents /\ [][NextAgents]_vars

\* ------------------------------------------------------------------------
\* Properties of the agents' request validation
\* ------------------------------------------------------------------------
\* the required field of the request that was answered is absent or empty
AbsentOrEmpty(field) == field \in {Undefined, ""}

StoresUnchanged ==
    UNCHANGED <<companies, company_profiles, employees, company_vectors,
                employee_vectors>>

\* C15: a request whose required field is absent or empty (query for the
\* Orchestrator and the two Finder agents, company for PeopleFinder) is
\* answered 400 with the agent's error body, no call to the model, the web
\* search, the vector index or the database is made, and no table or index
\* changes.
C15_RequiredFieldOrBadRequest ==
    [][/\ (orResp' # orResp /\ AbsentOrEmpty(orResp'.asked)) =>
             /\ orResp'.status = 400
             /\ orResp'.kind = "bad-request"
             /\ orResp'.calls = {}
             /\ StoresUnchanged
       /\ (pfResp' # pfResp /\ AbsentOrEmpty(pfResp'.asked)) =>
             /\ pfResp'.status = 400
             /\ pfResp'.error = "Company name is required"
             /\ pfResp'.calls = {}
             /\ StoresUnchanged
       /\ (finderResp' # finderResp /\ AbsentOrEmpty(finderResp'.asked)) =>
             /\ finderResp'.status = 400
             /\ finderResp'.error = "Query is required"
             /\ finderResp'.calls = {}
             /\ finderResp'.found = <<>>
             /\ StoresUnchanged]_vars

\* the tables and the indexes are filled, every agent has answered, and the
\* last answers of the Orchestrator, of PeopleFinder and of a Finder agent
\* are to requests without the required field
C15_Witness ==
    /\ company_profiles # {} /\ employees # {}
    /\ company_vectors # {} /\ employee_vectors # {}
    /\ orResp.kind = "bad-request" /\ orResp.asked = Undefined
    /\ pfResp.path = "bad-request" /\ pfResp.asked = ""
    /\ finderResp.shape = "bad-request" /\ finderResp.asked = Undefined


InitSaves == TemplatesIdle /\ ToolIdle /\ AgentsInit /\ OrchIdle /\ LaterIdle

NextSaves ==
    \/ EmailFinderSaveStep /\ UNCHANGED <<tplVars, toolVars, orchVars, laterVars>>
    \/ OrchestratorSaveStep /\ UNCHANGED <<tplVars, toolVars, agentVars, laterVars>>

SpecSaves == InitSaves /\ [][NextSaves]_vars

\* ------------------------------------------------------------------------
\* Properties of the save blocks
\* ------------------------------------------------------------------------

\* status and body of an EmailFinder response (verification_summary counts
\* the emails returned and the candidates)
EmailFinderBody(resp) ==
    [status |-> 200, emails |-> resp.emails, company_name |-> resp.company_name,
     website |-> resp.website, employee_name |-> resp.employee_name,
     employee_title |-> resp.employee_title,
     verification_summary |-> <<Len(resp.emails), resp.candidates>>]

\* status and body of an Orchestrator response
OrchestratorBody(resp) ==
    [status |-> resp.status, kind |-> resp.kind, answer |-> resp.answer,
     people |-> resp.people, favicon |-> resp.favicon]

EmailFinderBodies(r, saveThrows) ==
    {EmailFinderBody(o.resp) :
        o \in EmailFinderOutcomes(r.person[1], r.person[2], "", "Acme", "acme.com",
                                  "CTO", r.llm, AllValid, FALSE, saveThrows)}

OrchestratorBodies(llm, fault) ==
    {OrchestratorBody(o.resp) :
        o \in OrchestratorOutcomes("find people at acme", llm, fault)}

\* C17: whatever the tables hold, a request whose save block hits a database
\* error gets the status and body that the same request gets when the save
\* succeeds, from the EmailFinder and from the Orchestrator.
C17_SaveErrorSameResponse ==
    /\ \A r \in SaveEmailRequests :
          EmailFinderBodies(r, TRUE) = EmailFinderBodies(r, FALSE)
    /\ \A llm \in SaveOrchAnswers, fault \in 1..MaxFault :
          OrchestratorBodies(llm, fault) = OrchestratorBodies(llm, 0)

\* both agents have answered 200 with people / emails after their save threw,
\* the tables holding rows of earlier saves
C17_Witness ==
    /\ efResp.saveThrew /\ efResp.emails # <<>>
    /\ orResp.saveThrew /\ orResp.status = 200 /\ orResp.people # <<>>
    /\ companies # {} /\ company_profiles # {} /\ employees # {}


InitRace ==
    /\ TemplatesIdle /\ ToolIdle /\ AgentsIdle /\ OrchIdle
    /\ VectorizeIdle /\ FinderIdle /\ CardIdle /\ LoginIdle
    /\ RaceStarted

NextRace ==
    \/ /\ RaceStep
       /\ UNCHANGED <<tplVars, toolVars, agentVars, vecVars, finderVars, uiVars>>

SpecRace == InitRace /\ [][NextRace]_vars

\* ------------------------------------------------------------------------
\* Properties of overlapping Orchestrator requests
\* ------------------------------------------------------------------------
RaceDone == racePc # <<>> /\ \A r \in RaceRequests : racePc[r] = "done"

SameCompany(a, b) == Lower(Trim(a)) = Lower(Trim(b))

\* C19: when two Orchestrator requests for the same company have both
\* finished, however their upsertCompany calls interleaved, company_profiles
\* holds a single row for that company name.
C19_SingleRowWhenOverlapping ==
    (/\ RaceDone
     /\ SameCompany(raceLocal[1].answer[1].company, raceLocal[2].answer[1].company))
    => Cardinality({c \in company_profiles :
                      SameCompany(c.companyName, raceLocal[1].answer[1].company)}) = 1

====
